---- MODULE Spec2Model ----
(***************************************************************************)
(* Model of the AI code generator backend (FastAPI service):               *)
(*   - api/endpoints/generate.py  : POST /generate, POST /generate/batch   *)
(*   - api/endpoints/analyze.py   : POST /analyze, /analyze/format,        *)
(*                                  /analyze/validate                      *)
(*   - services/code_generator.py : CodeGeneratorService                   *)
(*   - services/code_analyzer.py  : CodeAnalyzerService                    *)
(*   - models/request.py          : request validation                     *)
(*                                                                         *)
(* A Python str is a sequence of one-character strings, so that strip,     *)
(* replace, startswith, split and count are computed character by          *)
(* character.  An Optional value is a sequence of length 0 (None) or 1.    *)
(* A message (str(e), an f-string) is a sequence of non-empty chunks; the  *)
(* empty message is <<>>.                                                  *)
(***************************************************************************)
EXTENDS Integers, Sequences, FiniteSets, TLC

VARIABLES
    openai_api_key,   \* settings.openai_api_key (process-wide, read-only)
    pc,               \* position of the HTTP handler: idle / running / responded
    endpoint,         \* route of the request being served
    authorization,    \* Optional Authorization header of the request
    body,             \* raw JSON body: sequence of generation items
    tasks,            \* one record per generate_code / generate_code_async coroutine
    order,            \* indices of the batch tasks in the order they finished
    response,         \* Optional HTTP response
    TREE_SITTER_AVAILABLE, \* code_analyzer.py module flag, set at import
    parsers,          \* CodeAnalyzerService.parsers: languages with a loaded parser
    areq,             \* Optional analysis request: route, raw body, and the outcomes
                      \* the external calls have for it (none when refused)
    steps,            \* analyzer sub-steps run for the request, in order
    aresult,          \* Optional dict returned by CodeAnalyzerService.analyze_code
    aresponse,        \* Optional HTTP response of the analysis endpoints
    call,             \* Optional unit call of an analyzer method: [fn, arg]
    ret,              \* Optional return value of that call
    served            \* bodies returned by GET /languages so far, oldest first

genVars == <<openai_api_key, pc, endpoint, authorization, body, tasks, order, response>>
anaVars == <<TREE_SITTER_AVAILABLE, parsers, areq, steps, aresult, aresponse>>
fnVars == <<call, ret>>
langVars == <<served>>
vars == <<openai_api_key, pc, endpoint, authorization, body, tasks, order, response,
          TREE_SITTER_AVAILABLE, parsers, areq, steps, aresult, aresponse, call, ret,
          served>>

----------------------------------------------------------------------------
(* Python values                                                            *)

None == <<>>

Some(v) == <<v>>

IsNone(o) == o = <<>>

Value(o) == o[1]

\* str.isspace characters that occur in the modelled inputs
Whitespace == {" ", "\t", "\n", "\r"}

Min(a, b) == IF a < b THEN a ELSE b

Max(a, b) == IF a > b THEN a ELSE b

UpperCase == <<"A", "B", "C", "D", "E", "F", "G", "H", "I", "J", "K", "L", "M",
               "N", "O", "P", "Q", "R", "S", "T", "U", "V", "W", "X", "Y", "Z">>

LowerCase == <<"a", "b", "c", "d", "e", "f", "g", "h", "i", "j", "k", "l", "m",
               "n", "o", "p", "q", "r", "s", "t", "u", "v", "w", "x", "y", "z">>

\* s.lower()
Lower(s) ==
    [i \in 1..Len(s) |->
        IF \E k \in 1..26 : UpperCase[k] = s[i]
        THEN LowerCase[CHOOSE k \in 1..26 : UpperCase[k] = s[i]]
        ELSE s[i]]

\* n copies of the character c
Repeat(c, n) == [i \in 1..n |-> c]

\* s.startswith(p)
StartsWith(s, p) ==
    /\ Len(s) >= Len(p)
    /\ \A j \in 1..Len(p) : s[j] = p[j]

\* sub occurs in s at position i
MatchAt(s, sub, i) ==
    /\ i >= 1
    /\ i + Len(sub) - 1 <= Len(s)
    /\ \A j \in 1..Len(sub) : s[i + j - 1] = sub[j]

\* start positions of the occurrences of sub in s
Occurrences(s, sub) == {i \in 1..(Len(s) - Len(sub) + 1) : MatchAt(s, sub, i)}

\* sub in s
Contains(s, sub) == Occurrences(s, sub) # {}

SetMin(S) == CHOOSE m \in S : \A x \in S : m <= x

SetMax(S) == 0 - SetMin({0 - x : x \in S})

\* s.count(sub): non-overlapping occurrences, scanning left to right
RECURSIVE CountFrom(_, _, _)
CountFrom(P, n, from) ==
    LET rest == {p \in P : p >= from}
    IN IF rest = {} THEN 0 ELSE 1 + CountFrom(P, n, SetMin(rest) + n)

Count(s, sub) == CountFrom(Occurrences(s, sub), Len(sub), 1)

\* s.strip()
Strip(s) ==
    LET keep == {i \in 1..Len(s) : s[i] \notin Whitespace}
    IN IF keep = {} THEN <<>> ELSE SubSeq(s, SetMin(keep), SetMax(keep))

\* s.lstrip()
LStrip(s) ==
    LET keep == {i \in 1..Len(s) : s[i] \notin Whitespace}
    IN IF keep = {} THEN <<>> ELSE SubSeq(s, SetMin(keep), Len(s))

\* s.replace(old, "") : every non-overlapping occurrence of old removed, left to right
RECURSIVE RemoveAll(_, _)
RemoveAll(s, old) ==
    LET occ == Occurrences(s, old)
    IN IF occ = {} THEN s
       ELSE LET i == SetMin(occ)
            IN SubSeq(s, 1, i - 1) \o RemoveAll(SubSeq(s, i + Len(old), Len(s)), old)

\* s.split(sep) for a one-character separator: always at least one piece
Split(s, sep) ==
    LET cuts == {i \in 1..Len(s) : s[i] = sep}
        n == Cardinality(cuts) + 1
        \* position of the k-th separator; 0 before the first, Len+1 after the last
        cut(k) == IF k = 0 THEN 0
                  ELSE IF k = n THEN Len(s) + 1
                  ELSE CHOOSE c \in cuts : Cardinality({d \in cuts : d <= c}) = k
    IN [k \in 1..n |-> SubSeq(s, cut(k - 1) + 1, cut(k) - 1)]

\* concatenation of a sequence of strings
RECURSIVE Concat(_)
Concat(ss) == IF ss = <<>> THEN <<>> ELSE Head(ss) \o Concat(Tail(ss))

\* all sequences over S of length 0..n
RECURSIVE SeqsUpTo(_, _)
SeqsUpTo(S, n) ==
    IF n = 0 THEN {<<>>}
    ELSE LET shorter == SeqsUpTo(S, n - 1)
         IN shorter \cup {Append(q, x) : q \in {r \in shorter : Len(r) = n - 1}, x \in S}

----------------------------------------------------------------------------
(* Exceptions and call outcomes                                             *)

\* an exception value; detail is its message
Exc(type, status_code, detail) ==
    [type |-> type, status_code |-> status_code, detail |-> detail]

HTTPException(status_code, detail) == Exc("HTTPException", status_code, detail)

\* str(e): starlette's HTTPException prints "<status>: <detail>", others their message
Str(e) ==
    IF e.type = "HTTPException" THEN <<ToString(e.status_code), ": ">> \o e.detail ELSE e.detail

Raise(e) == [raised |-> TRUE, exc |-> Some(e), value |-> None]

Return(v) == [raised |-> FALSE, exc |-> None, value |-> Some(v)]

----------------------------------------------------------------------------
(* models/request.py                                                        *)

PROMPT_MIN_LENGTH == 1

PROMPT_MAX_LENGTH == 2000

PROMPT_MIN_STRIPPED == 10

BATCH_MIN_ITEMS == 1

BATCH_MAX_ITEMS == 3

\* validate_prompt with the length test on the raw value instead of the trimmed one
validate_prompt_raw_length(v) ==
    IF Len(v) < PROMPT_MIN_STRIPPED
    THEN Raise(Exc("ValueError", 422, <<"Prompt must be at least 10 characters long">>))
    ELSE Return(Strip(v))

\* @validator("prompt")
validate_prompt(v) ==
    IF Len(Strip(v)) < PROMPT_MIN_STRIPPED
    THEN Raise(Exc("ValueError", 422, <<"Prompt must be at least 10 characters long">>))
    ELSE Return(Strip(v))

\* GenerationRequest(**raw): field constraints on the raw prompt, then the validator
GenerationRequest(raw) ==
    IF Len(raw.prompt) < PROMPT_MIN_LENGTH \/ Len(raw.prompt) > PROMPT_MAX_LENGTH
    THEN Raise(Exc("ValidationError", 422, <<"prompt length">>))
    ELSE LET p == validate_prompt(raw.prompt)
         IN IF p.raised THEN p
            ELSE Return([raw EXCEPT !.prompt = Value(p.value)])

\* BatchGenerationRequest(requests=raws)
BatchGenerationRequest(raws) ==
    IF Len(raws) < BATCH_MIN_ITEMS \/ Len(raws) > BATCH_MAX_ITEMS
    THEN Raise(Exc("ValidationError", 422, <<"requests length">>))
    ELSE IF \E i \in 1..Len(raws) : GenerationRequest(raws[i]).raised
    THEN Raise(Exc("ValidationError", 422, <<"requests item">>))
    ELSE Return([i \in 1..Len(raws) |-> Value(GenerationRequest(raws[i]).value)])

----------------------------------------------------------------------------
(* api/endpoints/generate.py : credentials                                  *)

Bearer == <<"B", "e", "a", "r", "e", "r", " ">>

extract_api_key_from_header(auth) ==
    IF IsNone(auth) \/ Value(auth) = <<>>
    THEN Raise(HTTPException(401,
            <<"OpenAI API key is required. Please provide it in the Authorization header.">>))
    ELSE IF ~StartsWith(Value(auth), Bearer)
    THEN Raise(HTTPException(401,
            <<"Invalid authorization header format. Use 'Bearer <api_key>'">>))
    ELSE Return(Strip(RemoveAll(Value(auth), Bearer)))

\* CodeGeneratorService.__init__: the key handed to ChatOpenAI, or ValueError
CodeGeneratorService(api_key, settings_key) ==
    LET effective_api_key == IF api_key # <<>> THEN api_key ELSE settings_key
    IN IF effective_api_key = <<>>
       THEN Raise(Exc("ValueError", 0, <<"OpenAI API key is required">>))
       ELSE Return(effective_api_key)

----------------------------------------------------------------------------
(* services/code_generator.py : response parsing                            *)

\* the code fence: three backticks (a backtick is written "^", as a TLA+ string
\* cannot hold one)
Fence == <<"^", "^", "^">>

Letters == {"a", "b", "c", "d", "e", "f", "g", "h", "i", "j", "k", "l", "m",
            "n", "o", "p", "q", "r", "s", "t", "u", "v", "w", "x", "y", "z"}

Digits == {"0", "1", "2", "3", "4", "5", "6", "7", "8", "9"}

\* the characters the regex word class matches
WordChars == Letters \cup {UpperCase[k] : k \in 1..26} \cup Digits \cup {"_"}

\* first position >= i that does not hold a word character
WordRunEnd(s, i) ==
    LET stops == {j \in i..Len(s) : s[j] \notin WordChars}
    IN IF stops = {} THEN Len(s) + 1 ELSE SetMin(stops)

\* first regex of _extract_code_from_response (fence, word characters, newline,
\* shortest content, newline, fence) matched at fence position i: <<first, last>>
\* of group 1, or <<>> when it does not match there
TaggedBlockAt(s, i) ==
    LET q == WordRunEnd(s, i + 3)
        closers == {e \in (q + 1)..Len(s) : MatchAt(s, <<"\n">> \o Fence, e)}
    IN IF q <= Len(s) /\ s[q] = "\n" /\ closers # {}
       THEN <<q + 1, SetMin(closers) - 1>>
       ELSE <<>>

\* CodeGeneratorService._extract_code_from_response
extract_code_from_response(resp) ==
    LET fences == Occurrences(resp, Fence)
        tagged == {i \in fences : TaggedBlockAt(resp, i) # <<>>}
    IN IF tagged # {}
       THEN LET g == TaggedBlockAt(resp, SetMin(tagged))
            IN Strip(SubSeq(resp, g[1], g[2]))
       ELSE IF fences # {} /\ {e \in fences : e >= SetMin(fences) + 3} # {}
       THEN LET i == SetMin(fences)
                e == SetMin({f \in fences : f >= i + 3})
            IN Strip(SubSeq(resp, i + 3, e - 1))
       ELSE Strip(resp)

\* CodeGeneratorService._get_default_test_framework
get_default_test_framework(language) ==
    CASE language = "python" -> "pytest"
      [] language = "javascript" -> "jest"
      [] language = "typescript" -> "jest"
      [] language = "java" -> "junit"
      [] language = "csharp" -> "xunit"
      [] language = "go" -> "testing"
      [] language = "rust" -> "cargo test"
      [] language = "cpp" -> "gtest"
      [] language = "ruby" -> "rspec"
      [] language = "swift" -> "xctest"
      [] OTHER -> "unittest"

\* TestResult built by CodeGeneratorService.generate_tests from the LLM text
TestResult(text, request) ==
    [test_code |-> extract_code_from_response(text),
     framework |-> get_default_test_framework(request.programming_language)]

\* json_pattern of _parse_documentation_response: greedy, first open brace to
\* last close brace
JsonSpan(s) ==
    LET opens == {i \in 1..Len(s) : s[i] = "{"}
        closes == {i \in 1..Len(s) : s[i] = "}"}
    IN IF opens # {} /\ {c \in closes : c > SetMin(opens)} # {}
       THEN <<SetMin(opens), SetMax(closes)>>
       ELSE <<>>

\* JSON values: a string, null
JsonStr(v) == [kind |-> "str", v |-> v]

JsonNull == [kind |-> "null", v |-> <<>>]

\* first position from i on that holds no whitespace; Len(s) + 1 if there is none
SkipWs(s, i) ==
    LET rest == {j \in i..Len(s) : s[j] \notin Whitespace}
    IN IF rest = {} THEN Len(s) + 1 ELSE SetMin(rest)

Is(s, i, c) == i <= Len(s) /\ s[i] = c

\* a JSON string that starts at position i and ends at the quote at position j
StringAt(s, i, j) ==
    [ok |-> \A k \in (i + 1)..(j - 1) : s[k] \notin {"\\", "\n", "\t", "\r"},
     value |-> JsonStr(SubSeq(s, i + 1, j - 1)), next |-> j + 1]

\* a JSON value at position i: a string without escapes or control characters,
\* or null
ValueAt(s, i) ==
    IF Is(s, i, "\"")
    THEN IF \E j \in (i + 1)..Len(s) : s[j] = "\""
         THEN StringAt(s, i, SetMin({j \in (i + 1)..Len(s) : s[j] = "\""}))
         ELSE [ok |-> FALSE, value |-> JsonNull, next |-> i]
    ELSE IF i + 3 <= Len(s) /\ SubSeq(s, i, i + 3) = <<"n", "u", "l", "l">>
    THEN [ok |-> TRUE, value |-> JsonNull, next |-> i + 4]
    ELSE [ok |-> FALSE, value |-> JsonNull, next |-> i]

JSONDecodeError == Exc("JSONDecodeError", 0, <<"Expecting value">>)

\* the members of an object from position i on, up to the closing brace and the
\* end of the text; a later member replaces an earlier one of the same key
RECURSIVE Members(_, _, _)

\* after a member: a comma and the next member, or the closing brace and the end
MembersAfter(s, dict, after) ==
    IF Is(s, after, ",") THEN Members(s, SkipWs(s, after + 1), dict)
    ELSE IF Is(s, after, "}") /\ SkipWs(s, after + 1) = Len(s) + 1 THEN Return(dict)
    ELSE Raise(JSONDecodeError)

\* a member's value
MemberValue(s, acc, key, val) ==
    IF ~val.ok THEN Raise(JSONDecodeError)
    ELSE MembersAfter(s, Append(acc, [key |-> key, value |-> val.value]),
                      SkipWs(s, val.next))

\* a member's key and colon
MemberKey(s, acc, key) ==
    IF ~(key.ok /\ key.value.kind = "str" /\ Is(s, SkipWs(s, key.next), ":"))
    THEN Raise(JSONDecodeError)
    ELSE MemberValue(s, acc, key.value.v,
                     ValueAt(s, SkipWs(s, SkipWs(s, key.next) + 1)))

Members(s, i, acc) == MemberKey(s, acc, ValueAt(s, i))

\* json.loads on a text that holds, if it is JSON at all, an object whose members
\* are strings or null: the dict as the sequence of its items
json_loads(s) ==
    IF ~Is(s, SkipWs(s, 1), "{") THEN Raise(JSONDecodeError)
    ELSE IF Is(s, SkipWs(s, SkipWs(s, 1) + 1), "}")
    THEN IF SkipWs(s, SkipWs(s, SkipWs(s, 1) + 1) + 1) = Len(s) + 1 THEN Return(<<>>)
         ELSE Raise(JSONDecodeError)
    ELSE Members(s, SkipWs(s, SkipWs(s, 1) + 1), <<>>)

\* dict.get(key, default)
Get(dict, key, default) ==
    LET hits == {k \in 1..Len(dict) : dict[k].key = key}
    IN IF hits = {} THEN default ELSE dict[SetMax(hits)].value

\* the fallback structure of _parse_documentation_response
basic_structure(resp) ==
    <<[key |-> <<"i", "n", "l", "i", "n", "e", "_", "c", "o", "m", "m", "e", "n", "t", "s">>, value |-> JsonStr(resp)],
      [key |-> <<"r", "e", "a", "d", "m", "e">>, value |-> JsonNull],
      [key |-> <<"a", "p", "i", "_", "d", "o", "c", "s">>, value |-> JsonNull],
      [key |-> <<"u", "s", "a", "g", "e", "_", "e", "x", "a", "m", "p", "l", "e", "s">>, value |-> [kind |-> "list", v |-> <<>>]]>>

\* the text matched by json_pattern
matched(resp) == SubSeq(resp, JsonSpan(resp)[1], JsonSpan(resp)[2])

\* the outcome of json.loads if it returned, the fallback structure if it raised
loaded_or_basic(loaded, resp) ==
    IF loaded.raised THEN Return(basic_structure(resp)) ELSE loaded

\* _parse_documentation_response without the try/except around json.loads
parse_documentation_response_no_except(resp) ==
    IF JsonSpan(resp) # <<>>
    THEN json_loads(matched(resp))
    ELSE Return(basic_structure(resp))

\* CodeGeneratorService._parse_documentation_response
parse_documentation_response(resp) ==
    IF JsonSpan(resp) # <<>>
    THEN loaded_or_basic(json_loads(matched(resp)), resp)
    ELSE Return(basic_structure(resp))

\* Documentation(**fields): inline_comments is a str, readme and api_docs are
\* Optional[str], usage_examples is a List[str]
Documentation(inline_comments, readme, api_docs, usage_examples) ==
    IF /\ inline_comments.kind = "str"
       /\ readme.kind \in {"str", "null"}
       /\ api_docs.kind \in {"str", "null"}
       /\ usage_examples.kind = "list"
    THEN Return([inline_comments |-> inline_comments.v,
                 readme |-> IF readme.kind = "str" THEN Some(readme.v) ELSE None,
                 api_docs |-> IF api_docs.kind = "str" THEN Some(api_docs.v) ELSE None,
                 usage_examples |-> usage_examples.v])
    ELSE Raise(Exc("ValidationError", 0, <<"validation error for Documentation">>))

\* the Documentation generate_documentation builds from doc_data
documentation_from(doc_data, code) ==
    IF doc_data.raised THEN doc_data
    ELSE Documentation(Get(Value(doc_data.value), <<"i", "n", "l", "i", "n", "e", "_", "c", "o", "m", "m", "e", "n", "t", "s">>, JsonStr(code)),
                       Get(Value(doc_data.value), <<"r", "e", "a", "d", "m", "e">>, JsonNull),
                       Get(Value(doc_data.value), <<"a", "p", "i", "_", "d", "o", "c", "s">>, JsonNull),
                       Get(Value(doc_data.value), <<"u", "s", "a", "g", "e", "_", "e", "x", "a", "m", "p", "l", "e", "s">>,
                           [kind |-> "list", v |-> <<>>]))

\* CodeGeneratorService.generate_documentation, from the text of the LLM's answer on
generate_documentation(text, code) ==
    documentation_from(parse_documentation_response(text), code)

----------------------------------------------------------------------------
(* services/code_generator.py : metrics of the generated code               *)

\* sum of f[i] over i in lo..hi
RECURSIVE SumRange(_, _, _)
SumRange(f, lo, hi) ==
    IF lo > hi THEN 0
    ELSE IF lo = hi THEN f[lo]
    ELSE LET mid == (lo + hi) \div 2
         IN SumRange(f, lo, mid) + SumRange(f, mid + 1, hi)

\* sum of the elements of the sequence f
SumSeq(f) == SumRange(f, 1, Len(f))

\* a / b rounded to the nearest integer, ties to even (a >= 0, b > 0)
RoundDiv(a, b) ==
    LET q == a \div b
        r == a % b
    IN IF 2 * r < b THEN q
       ELSE IF 2 * r > b THEN q + 1
       ELSE IF q % 2 = 0 THEN q ELSE q + 1

\* string literals of code_generator.py
IF_ == <<"i", "f", " ">>

ELIF_ == <<"e", "l", "i", "f", " ">>

ELSEC == <<"e", "l", "s", "e", ":">>

FOR_ == <<"f", "o", "r", " ">>

WHILE_ == <<"w", "h", "i", "l", "e", " ">>

EXCEPTC == <<"e", "x", "c", "e", "p", "t", ":">>

CASE_ == <<"c", "a", "s", "e", " ">>

FOR == <<"f", "o", "r">>

WHILE == <<"w", "h", "i", "l", "e">>

BRACKETS == <<"[", "]">>

LISTP == <<"l", "i", "s", "t", "(">>

ARRAY == <<"a", "r", "r", "a", "y">>

generator_complexity_indicators ==
    <<IF_, ELIF_, ELSEC, FOR_, WHILE_, EXCEPTC, CASE_>>

\* CodeGeneratorService._estimate_complexity
estimate_complexity(code) ==
    LET fors == Occurrences(code, FOR)
    IN IF fors # {} /\ {f \in fors : f >= SetMin(fors) + 4} # {} THEN "O(n^2)"
       ELSE IF fors # {} \/ Contains(code, WHILE) THEN "O(n)"
       ELSE "O(1)"

\* CodeGeneratorService._estimate_memory_complexity
generator_estimate_memory_complexity(code) ==
    IF Contains(code, BRACKETS) \/ Contains(code, LISTP) \/ Contains(Lower(code), ARRAY)
    THEN "O(n)"
    ELSE "O(1)"

\* CodeGeneratorService.calculate_metrics; readability_score is in tenths
\* (round(readability, 1) * 10)
generator_calculate_metrics(code, language) ==
    LET lines == Split(code, "\n")
        n == Len(lines)
        loc == Cardinality({i \in 1..n :
                   Strip(lines[i]) # <<>> /\ ~StartsWith(Strip(lines[i]), <<"#">>)})
        hits == {<<i, k>> \in (1..n) \X (1..Len(generator_complexity_indicators)) :
                   Contains(lines[i], generator_complexity_indicators[k])}
        total == SumSeq([i \in 1..n |-> Len(lines[i])])
        \* 100 - (avg_line_length - 50) * 2, as a fraction over n
        raw == 200 * n - 2 * total
        clamped == Max(0, Min(100 * n, raw))
    IN [lines_of_code |-> loc,
        cyclomatic_complexity |-> Cardinality(hits) + 1,
        readability_score |-> RoundDiv(10 * clamped, n),
        estimated_execution_time |-> estimate_complexity(code),
        memory_complexity |-> generator_estimate_memory_complexity(code)]

----------------------------------------------------------------------------
(* api/endpoints/generate.py : one generation (the body of the try block of *)
(* generate_code and of generate_code_async)                                *)

\* GenerationResponse; id, created_at and processing_time are not modelled
GenerationResponse(status, language, code, tests, documentation, metrics, error) ==
    [status |-> status, language |-> language, code |-> code, tests |-> tests,
     documentation |-> documentation, metrics |-> metrics, error |-> error]

\* the coroutine of one request before its first step
NewTask(request, api_key) ==
    [request |-> request, api_key |-> api_key, pc |-> "created", llm |-> None,
     calls |-> <<>>, code |-> None, tests |-> None, documentation |-> None,
     exc |-> None, result |-> None]

\* metrics computed, GenerationResponse(status=COMPLETED) returned
finish_generation(t) ==
    [t EXCEPT !.pc = "returned",
              !.result = Some(GenerationResponse("completed",
                    t.request.programming_language, t.code, t.tests, t.documentation,
                    Some(generator_calculate_metrics(Value(t.code),
                                                     t.request.programming_language)),
                    None))]

\* `if request.include_docs:` await generate_documentation
after_tests(t) ==
    IF t.request.include_docs
    THEN [t EXCEPT !.pc = "docs", !.calls = Append(t.calls, [kind |-> "docs", code |-> t.code])]
    ELSE finish_generation(t)

\* generate_tests awaited whatever include_tests says
after_code_always_tests(t) ==
    [t EXCEPT !.pc = "tests", !.calls = Append(t.calls, [kind |-> "tests", code |-> t.code])]

\* `if request.include_tests:` await generate_tests
after_code(t) ==
    IF t.request.include_tests
    THEN [t EXCEPT !.pc = "tests", !.calls = Append(t.calls, [kind |-> "tests", code |-> t.code])]
    ELSE after_tests(t)

\* from the start of the try block to the first await: the service is built
\* from the key and the code call is issued
start_generation(t, settings_key) ==
    LET service == CodeGeneratorService(t.api_key, settings_key)
    IN IF service.raised
       THEN [t EXCEPT !.pc = "raised", !.exc = service.exc]
       ELSE [t EXCEPT !.llm = service.value, !.pc = "code", !.calls = <<[kind |-> "code", code |-> None]>>]

\* a failed LLM call is noted but the coroutine carries on with an empty text
resume_generation_carries_on(t, outcome) ==
    LET text == IF outcome.raised THEN <<>> ELSE Value(outcome.value)
        u == IF outcome.raised THEN [t EXCEPT !.exc = outcome.exc] ELSE t
    IN CASE t.pc = "code" ->
              after_code([u EXCEPT !.code = Some(extract_code_from_response(text))])
         [] t.pc = "tests" ->
              after_tests([u EXCEPT !.tests = Some(TestResult(text, t.request))])
         [] t.pc = "docs" ->
              LET doc == generate_documentation(text, Value(t.code))
              IN finish_generation([u EXCEPT !.documentation = doc.value])

\* the awaited LLM call of a suspended coroutine returns a text or raises
resume_generation(t, outcome) ==
    IF outcome.raised
    THEN [t EXCEPT !.pc = "raised", !.exc = outcome.exc]
    ELSE LET text == Value(outcome.value)
         IN CASE t.pc = "code" ->
                   after_code([t EXCEPT !.code = Some(extract_code_from_response(text))])
              [] t.pc = "tests" ->
                   after_tests([t EXCEPT !.tests = Some(TestResult(text, t.request))])
              [] t.pc = "docs" ->
                   LET doc == generate_documentation(text, Value(t.code))
                   IN IF doc.raised
                      THEN [t EXCEPT !.pc = "raised", !.exc = doc.exc]
                      ELSE finish_generation([t EXCEPT !.documentation = doc.value])

\* generate_code_async reporting in the FAILED response what was generated before
\* the failure
generate_code_async_partial(t) ==
    IF t.pc = "raised"
    THEN [t EXCEPT !.pc = "returned",
                   !.result = Some(GenerationResponse("failed",
                         t.request.programming_language, t.code, t.tests, None, None,
                         Some(Str(Value(t.exc)))))]
    ELSE t

\* `except Exception as e` of generate_code_async: a FAILED response is returned
generate_code_async(t) ==
    IF t.pc = "raised"
    THEN [t EXCEPT !.pc = "returned",
                   !.result = Some(GenerationResponse("failed",
                         t.request.programming_language, None, None, None, None,
                         Some(Str(Value(t.exc)))))]
    ELSE t

\* an HTTP response; json holds the GenerationResponse records of a 200
Http(status_code, detail, json) ==
    [status_code |-> status_code, detail |-> detail, json |-> json]

\* `except Exception as e` of generate_code: HTTPException(500)
generate_code_failed(e) ==
    Http(500, <<"Code generation failed: ">> \o Str(e), <<>>)

\* `except Exception as e` of generate_batch: HTTPException(500)
generate_batch_failed(e) ==
    Http(500, <<"Batch generation failed: ">> \o Str(e), <<>>)

\* request validation failure reported by the framework before the handler runs
Unprocessable(e) == Http(422, e.detail, <<>>)

max_concurrent_generations == 3

\* gather handing the outcomes back in the order the coroutines finished
gather_completion_order(ts, finished) ==
    [k \in 1..Len(ts) |->
        IF ts[finished[k]].pc = "raised" THEN Raise(Value(ts[finished[k]].exc))
        ELSE Return(Value(ts[finished[k]].result))]

\* asyncio.gather(*tasks, return_exceptions=True): the outcomes in task order
gather(ts, finished) ==
    [i \in 1..Len(ts) |->
        IF ts[i].pc = "raised" THEN Raise(Value(ts[i].exc))
        ELSE Return(Value(ts[i].result))]

\* lines 136-149 of generate_batch: an exception outcome becomes a FAILED record
\* for the request at the same position
batch_responses(results, requests) ==
    [i \in 1..Len(results) |->
        IF results[i].raised
        THEN GenerationResponse("failed", requests[i].programming_language,
                                None, None, None, None,
                                Some(Str(Value(results[i].exc))))
        ELSE Value(results[i].value)]

TaskDone(t) == t.pc = "returned"

Awaiting(t) == t.pc \in {"code", "tests", "docs"}

----------------------------------------------------------------------------
(* Inputs of the generation endpoints                                       *)

\* keys: the caller's and the one the deployment may hold in OPENAI_API_KEY
UserKey == <<"s", "k", "1">>

ServerKey == <<"s", "k", "S">>

SettingsKeys == {<<>>, ServerKey}

Headers ==
    {None,
     Some(<<>>),
     Some(<<"B", "a", "s", "i", "c", " ">> \o UserKey),
     Some(<<"B", "e", "a", "r", "e", "r", "s", "k", "1">>),
     Some(<<"b", "e", "a", "r", "e", "r", " ">> \o UserKey),
     Some(Bearer \o UserKey),
     Some(Bearer \o <<" ">> \o UserKey \o <<" ">>),
     Some(Bearer),
     Some(Bearer \o <<" ", " ">>)}

X(n) == Repeat("x", n)

Prompts ==
    {<<>>,
     X(9),
     <<" ">> \o X(9) \o <<" ", "\n">>,
     X(10),
     <<" ", "\t">> \o X(10) \o <<"\n">>,
     X(PROMPT_MAX_LENGTH),
     X(PROMPT_MAX_LENGTH + 1)}

GenLanguages == {"python", "go"}

\* bodies of POST /generate
GenerationBodies ==
    [prompt : Prompts, programming_language : GenLanguages,
     include_tests : BOOLEAN, include_docs : BOOLEAN]

\* items of POST /generate/batch: a python item with tests and documentation, a
\* go item without, and a python item whose prompt is too short once trimmed
BatchItems ==
    {b \in GenerationBodies :
        /\ b.prompt \in {<<" ">> \o X(9) \o <<" ", "\n">>, <<" ", "\t">> \o X(10) \o <<"\n">>}
        /\ b.include_tests = b.include_docs
        /\ b.include_tests = (b.programming_language = "python")
        /\ (Len(Strip(b.prompt)) < PROMPT_MIN_STRIPPED => b.programming_language = "python")}

\* Authorization headers of POST /generate/batch
BatchHeaders ==
    {None, Some(<<"B", "a", "s", "i", "c", " ">> \o UserKey), Some(Bearer \o UserKey),
     Some(Bearer)}

OversizedBatch ==
    [i \in 1..(BATCH_MAX_ITEMS + 1) |->
        [prompt |-> X(10), programming_language |-> "python",
         include_tests |-> FALSE, include_docs |-> FALSE]]

BatchBodies == SeqsUpTo(BatchItems, BATCH_MAX_ITEMS) \cup {OversizedBatch}

\* texts the LLM returns for the code, tests and documentation calls
LLMTexts(kind) ==
    CASE kind = "code" -> {<<"^", "^", "^", "p", "y", "\n", "x", " ", "=", " ", "[", "1", "]", "\n", "^", "^", "^">>}
      [] kind = "tests" -> {<<"^", "^", "^", "\n", "y", "\n", "^", "^", "^">>}
      [] kind = "docs" -> {<<"d", "o", "c">>}

\* exceptions the awaited LLM call raises: str() of the first is empty
LLMErrors ==
    {Exc("TimeoutError", 0, <<>>), Exc("APIError", 0, <<"rate limit exceeded">>)}

LLMOutcomes(kind) ==
    {Return(text) : text \in LLMTexts(kind)} \cup {Raise(e) : e \in LLMErrors}

----------------------------------------------------------------------------
(* The generation endpoints as a state machine: one HTTP request is served  *)
(* per behaviour; the coroutines of a batch interleave at their awaits      *)

AnalysisIdle ==
    /\ TREE_SITTER_AVAILABLE = FALSE
    /\ parsers = {}
    /\ areq = None
    /\ steps = <<>>
    /\ aresult = None
    /\ aresponse = None

UnitIdle ==
    /\ call = None
    /\ ret = None
    /\ served = <<>>

GenerationIdle ==
    /\ pc = "idle"
    /\ endpoint = "none"
    /\ authorization = None
    /\ body = <<>>
    /\ tasks = <<>>
    /\ order = <<>>
    /\ response = None

InitGenerate ==
    /\ openai_api_key \in SettingsKeys
    /\ GenerationIdle
    /\ AnalysisIdle
    /\ UnitIdle

Respond(r) ==
    /\ response' = Some(r)
    /\ pc' = "responded"

\* POST /generate up to the first await of generate_code
PostGenerate ==
    /\ pc = "idle"
    /\ \E auth \in Headers, raw \in GenerationBodies :
        LET request == GenerationRequest(raw)
            api_key == extract_api_key_from_header(auth)
        IN /\ endpoint' = "generate"
           /\ authorization' = auth
           /\ body' = <<raw>>
           /\ IF request.raised
              THEN /\ tasks' = <<>>
                   /\ Respond(Unprocessable(Value(request.exc)))
              ELSE IF api_key.raised
              THEN /\ tasks' = <<>>
                   /\ Respond(generate_code_failed(Value(api_key.exc)))
              ELSE LET t == start_generation(
                               NewTask(Value(request.value), Value(api_key.value)),
                               openai_api_key)
                   IN /\ tasks' = <<t>>
                      /\ IF t.pc = "raised"
                         THEN Respond(generate_code_failed(Value(t.exc)))
                         ELSE UNCHANGED <<response>> /\ pc' = "running"
    /\ UNCHANGED <<openai_api_key, order>>
    /\ UNCHANGED <<anaVars, fnVars, langVars>>

\* POST /generate/batch up to `await asyncio.gather(...)`
PostGenerateBatch ==
    /\ pc = "idle"
    /\ \E auth \in BatchHeaders, raws \in BatchBodies :
        LET batch_request == BatchGenerationRequest(raws)
            api_key == extract_api_key_from_header(auth)
        IN /\ endpoint' = "batch"
           /\ authorization' = auth
           /\ body' = raws
           /\ IF batch_request.raised
              THEN /\ tasks' = <<>>
                   /\ Respond(Unprocessable(Value(batch_request.exc)))
              ELSE IF api_key.raised
              THEN /\ tasks' = <<>>
                   /\ Respond(generate_batch_failed(Value(api_key.exc)))
              ELSE IF Len(Value(batch_request.value)) > max_concurrent_generations
              THEN /\ tasks' = <<>>
                   /\ Respond(generate_batch_failed(HTTPException(400,
                         <<"Maximum 3 concurrent generations allowed">>)))
              ELSE /\ tasks' = [i \in 1..Len(Value(batch_request.value)) |->
                                  NewTask(Value(batch_request.value)[i],
                                          Value(api_key.value))]
                   /\ UNCHANGED <<response>>
                   /\ pc' = "running"
    /\ UNCHANGED <<openai_api_key, order>>
    /\ UNCHANGED <<anaVars, fnVars, langVars>>

\* the event loop runs the i-th coroutine of the batch to its first await
TaskStart(i) ==
    /\ pc = "running"
    /\ endpoint = "batch"
    /\ tasks[i].pc = "created"
    /\ LET t == generate_code_async(start_generation(tasks[i], openai_api_key))
       IN /\ tasks' = [tasks EXCEPT ![i] = t]
          /\ order' = IF TaskDone(t) THEN Append(order, i) ELSE order
    /\ UNCHANGED <<openai_api_key, pc, endpoint, authorization, body, response>>
    /\ UNCHANGED <<anaVars, fnVars, langVars>>

\* the LLM call awaited by coroutine i completes and the coroutine runs to its
\* next await or to its end
LLMReturns(i) ==
    /\ pc = "running"
    /\ Awaiting(tasks[i])
    /\ \E outcome \in LLMOutcomes(tasks[i].pc) :
        LET t == resume_generation(tasks[i], outcome)
        IN IF endpoint = "generate"
           THEN /\ tasks' = [tasks EXCEPT ![i] = t]
                /\ order' = order
                /\ IF t.pc = "returned"
                   THEN Respond(Http(200, <<>>, <<Value(t.result)>>))
                   ELSE IF t.pc = "raised"
                   THEN Respond(generate_code_failed(Value(t.exc)))
                   ELSE UNCHANGED <<response, pc>>
           ELSE LET u == generate_code_async(t)
                IN /\ tasks' = [tasks EXCEPT ![i] = u]
                   /\ order' = IF TaskDone(u) THEN Append(order, i) ELSE order
                   /\ UNCHANGED <<response, pc>>
    /\ UNCHANGED <<openai_api_key, endpoint, authorization, body>>
    /\ UNCHANGED <<anaVars, fnVars, langVars>>

\* gather returns once every coroutine is done; generate_batch builds the list
BatchGather ==
    /\ pc = "running"
    /\ endpoint = "batch"
    /\ \A i \in 1..Len(tasks) : TaskDone(tasks[i])
    /\ Respond(Http(200, <<>>,
                    batch_responses(gather(tasks, order),
                                    [i \in 1..Len(tasks) |-> tasks[i].request])))
    /\ UNCHANGED <<openai_api_key, endpoint, authorization, body, tasks, order>>
    /\ UNCHANGED <<anaVars, fnVars, langVars>>

NextGenerate ==
    \/ PostGenerate
    \/ PostGenerateBatch
    \/ \E i \in 1..Len(tasks) : TaskStart(i)
    \/ \E i \in 1..Len(tasks) : LLMReturns(i)
    \/ BatchGather

SpecGenerate == InitGenerate /\ [][NextGenerate]_vars

----------------------------------------------------------------------------
(* Properties of the generation endpoints                                   *)

Responded(ep) == pc = "responded" /\ endpoint = ep

Status == Value(response).status_code

Json == Value(response).json

\* the coroutines whose try block raised
Raisers == {i \in 1..Len(tasks) : tasks[i].exc # None}

\* C1: a batch of 3 in which exactly one item raises yields 3 results; the failing
\* slot is "failed" with a non-empty error, the other two are "completed",
\* whatever exception the item raised (an empty message included).
C1_BatchOneFailure ==
    (Responded("batch") /\ Len(tasks) = 3 /\ Cardinality(Raisers) = 1) =>
        /\ Status = 200
        /\ Len(Json) = 3
        /\ \A i \in 1..3 :
             IF i \in Raisers
             THEN /\ Json[i].status = "failed"
                  /\ Json[i].error # None
                  /\ Value(Json[i].error) # <<>>
             ELSE Json[i].status = "completed"

\* C2: in a batch an exception in one coroutine never stops a sibling: when the
\* batch responds every coroutine has run to its own outcome, and the record at
\* position i is the outcome of the request at position i (its language, its
\* flags, failed exactly when that coroutine raised), whatever order they
\* finished in.
C2_PositionalIsolation ==
    (Responded("batch") /\ tasks # <<>>) =>
        /\ Status = 200
        /\ Len(Json) = Len(body)
        /\ \A i \in 1..Len(body) :
             /\ TaskDone(tasks[i])
             /\ Json[i].language = body[i].programming_language
             /\ (Json[i].status = "failed") = (i \in Raisers)
             /\ (Json[i].status = "completed") = (i \notin Raisers)
             /\ Json[i].status = "completed" =>
                    /\ (Json[i].tests # None) = body[i].include_tests
                    /\ (Json[i].documentation # None) = body[i].include_docs

\* a batch of 3 answered although the item that raised finished first, before
\* its siblings of another language completed
C2_Witness ==
    /\ Responded("batch")
    /\ Len(tasks) = 3
    /\ Cardinality(Raisers) = 1
    /\ order[1] \in Raisers
    /\ order[1] # 1
    /\ order # <<1, 2, 3>>
    /\ \E i, j \in 1..3 : body[i].programming_language # body[j].programming_language
    /\ \A i \in (1..3) \ Raisers : Json[i].status = "completed"

BodyValid ==
    IF endpoint = "generate" THEN ~GenerationRequest(body[1]).raised
    ELSE ~BatchGenerationRequest(body).raised

BearerMissing ==
    \/ authorization = None
    \/ ~StartsWith(Value(authorization), Bearer)

NoClient == \A i \in 1..Len(tasks) : tasks[i].llm = None

\* C3: POST /generate and POST /generate/batch with a missing Authorization
\* header, or one that does not start with "Bearer ", answer 401 and construct no
\* LLM client.
C3_Unauthorized ==
    (pc = "responded" /\ endpoint \in {"generate", "batch"} /\ BodyValid /\ BearerMissing) =>
        /\ Status = 401
        /\ NoClient

\* the key the Authorization header carries: what follows the "Bearer " prefix
HeaderKey == Strip(SubSeq(Value(authorization), Len(Bearer) + 1, Len(Value(authorization))))

\* C4: the credential given to the LLM client is always the key carried in the
\* request's Authorization header, never settings.openai_api_key, for every
\* header that passes the Bearer check.
C4_CallerCredential ==
    \A i \in 1..Len(tasks) :
        tasks[i].llm # None => Value(tasks[i].llm) = HeaderKey

\* C5: a generation request (single or batch item) whose prompt has fewer than 10
\* characters once trimmed is rejected by validation and no LLM call is made for
\* the HTTP request; an accepted request's prompt is stored trimmed.
C5_ShortPromptRejected ==
    endpoint \in {"generate", "batch"} =>
        /\ (\E i \in 1..Len(body) : Len(Strip(body[i].prompt)) < 10) =>
              /\ tasks = <<>>
              /\ pc = "responded"
              /\ Status = 422
        /\ \A i \in 1..Len(tasks) :
              LET p == tasks[i].request.prompt
              IN /\ p = Strip(body[i].prompt)
                 /\ Len(p) >= 10
                 /\ p[1] \notin Whitespace
                 /\ p[Len(p)] \notin Whitespace

\* a batch item of 12 raw characters, 9 once trimmed, rejected with no coroutine
C5_Witness ==
    /\ Responded("batch")
    /\ Status = 422
    /\ tasks = <<>>
    /\ \E i \in 1..Len(body) :
          Len(body[i].prompt) >= 10 /\ Len(Strip(body[i].prompt)) < 10

----------------------------------------------------------------------------
(* services/code_analyzer.py : Metric Estimator                             *)

decision_keywords ==
    <<<<"i", "f">>,
      <<"e", "l", "i", "f">>,
      <<"e", "l", "s", "e">>,
      <<"f", "o", "r">>,
      <<"w", "h", "i", "l", "e">>,
      <<"e", "x", "c", "e", "p", "t">>,
      <<"c", "a", "s", "e">>,
      <<"w", "h", "e", "n">>,
      <<"c", "a", "t", "c", "h">>,
      <<"s", "w", "i", "t", "c", "h">>,
      <<"&", "&">>,
      <<"|", "|">>,
      <<"?">>,
      <<"t", "r", "y">>,
      <<"r", "e", "s", "c", "u", "e">>,
      <<"u", "n", "l", "e", "s", "s">>>>

\* comment_indicators[language] of _count_lines_of_code
comment_indicators(language) ==
    IF language \in {"python", "ruby"} THEN {<<"#">>}
    ELSE IF language \in {"javascript", "typescript", "java", "csharp", "go", "rust",
                          "cpp", "swift"}
    THEN {<<"/", "/">>, <<"/", "*">>, <<"*", "/">>}
    ELSE {<<"/", "/">>, <<"#">>}

\* CodeAnalyzerService._count_lines_of_code
count_lines_of_code(lines, language) ==
    Cardinality({i \in 1..Len(lines) :
        /\ Strip(lines[i]) # <<>>
        /\ ~\E ind \in comment_indicators(language) : StartsWith(Strip(lines[i]), ind)})

\* _calculate_cyclomatic_complexity with the base complexity left at 0
calculate_cyclomatic_complexity_base0(code, language) ==
    SumSeq([k \in 1..Len(decision_keywords) |->
              Count(code, <<" ">> \o decision_keywords[k] \o <<" ">>)
            + Count(code, <<"\n">> \o decision_keywords[k] \o <<" ">>)])

\* CodeAnalyzerService._calculate_cyclomatic_complexity
calculate_cyclomatic_complexity(code, language) ==
    1 + SumSeq([k \in 1..Len(decision_keywords) |->
                  Count(code, <<" ">> \o decision_keywords[k] \o <<" ">>)
                + Count(code, <<"\n">> \o decision_keywords[k] \o <<" ">>)])

\* lines with a non-whitespace first character that contain a colon
indent_issues(lines) ==
    Cardinality({i \in 1..Len(lines) :
        /\ lines[i] # <<>>
        /\ lines[i][1] \notin {" ", "\t"}
        /\ \E j \in 1..Len(lines[i]) : lines[i][j] = ":"})

\* _calculate_readability without the cap on the line-length penalty and without
\* the final clamp
calculate_readability_unbounded(lines) ==
    IF lines = <<>> THEN [num |-> 100, den |-> 1]
    ELSE LET n == Len(lines)
             total == SumSeq([i \in 1..n |-> Len(lines[i])])
             long_lines == IF total > 80 * n THEN 5 * (total - 80 * n) ELSE 0
             size == IF n < 3 THEN 100 * n
                     ELSE IF n > 50 THEN Min(200 * n, 2 * n * (n - 50))
                     ELSE 0
             indent == 10 * n * Min(20, indent_issues(lines) * 2)
         IN [num |-> 1000 * n - long_lines - size - indent, den |-> 10 * n]

\* CodeAnalyzerService._calculate_readability.  The score is the exact fraction
\* num / den with den = 10 * len(lines): avg_length = total / n, so
\* (avg_length - 80) * 0.5 = 5 * (total - 80 n) / (10 n) and
\* (n - 50) * 0.2 = 2 n (n - 50) / (10 n).
calculate_readability(lines) ==
    IF lines = <<>> THEN [num |-> 100, den |-> 1]
    ELSE LET n == Len(lines)
             total == SumSeq([i \in 1..n |-> Len(lines[i])])
             long_lines == IF total > 80 * n
                           THEN Min(300 * n, 5 * (total - 80 * n))
                           ELSE 0
             size == IF n < 3 THEN 100 * n
                     ELSE IF n > 50 THEN Min(200 * n, 2 * n * (n - 50))
                     ELSE 0
             indent == 10 * n * Min(20, indent_issues(lines) * 2)
             score == 1000 * n - long_lines - size - indent
         IN [num |-> Max(0, Min(1000 * n, score)), den |-> 10 * n]

RECURSI == <<"r", "e", "c", "u", "r", "s", "i">>

RETURN_SELF == <<"r", "e", "t", "u", "r", "n", " ", "s", "e", "l", "f", ".">>

\* indentation of the lines that hold a loop keyword, in line order
loop_indent_levels(lines) ==
    LET loops == {i \in 1..Len(lines) : Contains(lines[i], FOR) \/ Contains(lines[i], WHILE)}
        nth(k) == CHOOSE i \in loops : Cardinality({j \in loops : j <= i}) = k
    IN [k \in 1..Cardinality(loops) |-> Len(lines[nth(k)]) - Len(LStrip(lines[nth(k)]))]

\* CodeAnalyzerService._estimate_time_complexity
estimate_time_complexity(code) ==
    LET code_lower == Lower(code)
        loop_count == Count(code_lower, FOR) + Count(code_lower, WHILE)
        indent_levels == loop_indent_levels(Split(code, "\n"))
    IN IF loop_count >= 3 THEN "O(n^3) or higher"
       ELSE IF loop_count = 2
       THEN IF Len(indent_levels) >= 2 /\ indent_levels[2] > indent_levels[1]
            THEN "O(n^2)"
            ELSE "O(n)"
       ELSE IF loop_count = 1 THEN "O(n)"
       ELSE IF Contains(code_lower, RECURSI) \/ Contains(code_lower, RETURN_SELF)
       THEN "O(log n) to O(n) - recursive"
       ELSE "O(1)"

memory_indicators ==
    {<<"[", "]">>,
     <<"l", "i", "s", "t", "(">>,
     <<"a", "r", "r", "a", "y">>,
     <<"n", "e", "w", " ", "i", "n", "t", "[">>,
     <<"n", "e", "w", " ", "A", "r", "r", "a", "y">>,
     <<"m", "a", "l", "l", "o", "c">>,
     <<"v", "e", "c", "t", "o", "r">>,
     <<"H", "a", "s", "h", "M", "a", "p">>,
     <<"D", "i", "c", "t", "i", "o", "n", "a", "r", "y">>,
     <<"S", "e", "t", "(">>,
     <<"M", "a", "p", "(">>}

\* CodeAnalyzerService._estimate_memory_complexity
estimate_memory_complexity(code) ==
    IF \E indicator \in memory_indicators : Contains(code, indicator)
    THEN IF Contains(code, <<"r", "e", "s", "i", "z", "e">>) \/ Contains(code, <<"a", "p", "p", "e", "n", "d">>)
            \/ Contains(code, <<"p", "u", "s", "h">>)
         THEN "O(n)"
         ELSE "O(1) to O(n)"
    ELSE "O(1)"

\* CodeAnalyzerService._calculate_metrics
calculate_metrics(code, language) ==
    LET lines == Split(code, "\n")
    IN [lines_of_code |-> count_lines_of_code(lines, language),
        cyclomatic_complexity |-> calculate_cyclomatic_complexity(code, language),
        readability_score |-> calculate_readability(lines),
        estimated_execution_time |-> estimate_time_complexity(code),
        memory_complexity |-> estimate_memory_complexity(code)]

----------------------------------------------------------------------------
(* Unit calls of the Metric Estimator on bounded inputs                     *)

MaxLines == 151

MaxLineLength == 300

MaxIssues == 11

MaxTokens == 5

\* a line of L characters that starts unindented and holds a colon (L >= 1)
FlaggedLine(L) == IF L >= 2 THEN <<"x", ":">> \o X(L - 2) ELSE <<":">>

\* a line of L characters that does not count as an indentation issue: plain
\* text on odd rows, an indented line with a colon on even rows
CleanLine(L, i) ==
    IF i % 2 = 1 THEN X(L)
    ELSE IF L < 2 THEN Repeat(" ", L)
    ELSE <<" ", ":">> \o X(L - 2)

\* n lines of L characters, the first k of them indentation issues
Lines(n, L, k) == [i \in 1..n |-> IF i <= k THEN FlaggedLine(L) ELSE CleanLine(L, i)]

LineCounts == {0, 1, 2, 3, 50, 51, 150, MaxLines}

LineLengths == {0, 1, 80, 81, 140, 141, MaxLineLength}

IssueCounts == {0, 1, 9, 10, MaxIssues}

ReadabilityInputs ==
    {Lines(c[1], c[2], c[3]) : c \in
        {c \in LineCounts \X LineLengths \X IssueCounts :
            /\ c[3] <= c[1]
            /\ (c[2] = 0 => c[3] = 0)
            /\ (c[2] = MaxLineLength => c[1] <= 3)}}

ComplexityTokens ==
    {<<" ">>, <<"\n">>, <<"i", "f">>, <<"e", "l">>, <<"?">>, <<"x">>}

ComplexityInputs == {Concat(ts) : ts \in SeqsUpTo(ComplexityTokens, MaxTokens)}

InitMetrics ==
    /\ openai_api_key = <<>>
    /\ GenerationIdle
    /\ AnalysisIdle
    /\ UnitIdle

\* _calculate_readability(lines)
CallReadability ==
    /\ call = None
    /\ \E lines \in ReadabilityInputs :
        /\ call' = Some([fn |-> "_calculate_readability", arg |-> lines])
        /\ ret' = Some(calculate_readability(lines))
    /\ UNCHANGED <<genVars, anaVars, langVars>>

\* _calculate_cyclomatic_complexity(code, language)
CallComplexity ==
    /\ call = None
    /\ \E code \in ComplexityInputs :
        /\ call' = Some([fn |-> "_calculate_cyclomatic_complexity", arg |-> code])
        /\ ret' = Some(calculate_cyclomatic_complexity(code, "python"))
    /\ UNCHANGED <<genVars, anaVars, langVars>>

MaxLoopLines == 3

\* a line: an indentation and a statement with a loop keyword, lower or upper
\* case, two loop keywords, a recursion marker, or none of these
LoopIndents == {<<>>, <<" ", " ">>}

LoopStatements ==
    {<<"f", "o", "r", " ", "a">>,
     <<"w", "h", "i", "l", "e", " ", "a">>,
     <<"F", "O", "R", " ", "a">>,
     <<"x">>,
     <<"f", "o", "r", " ", "a", " ", "i", "n", " ", "f", "o", "r", " ", "b">>,
     <<"r", "e", "c", "u", "r", "s", "i", "v", "e">>,
     <<"r", "e", "t", "u", "r", "n", " ", "s", "e", "l", "f", ".", "a">>}

LoopLines == {indent \o statement : indent \in LoopIndents, statement \in LoopStatements}

\* the lines joined by newlines
RECURSIVE Join(_)
Join(lines) ==
    IF lines = <<>> THEN <<>>
    ELSE IF Len(lines) = 1 THEN lines[1]
    ELSE lines[1] \o <<"\n">> \o Join(Tail(lines))

LoopCodes == {Join(lines) : lines \in SeqsUpTo(LoopLines, MaxLoopLines)}

\* _estimate_time_complexity(code)
CallTimeComplexity ==
    /\ call = None
    /\ \E code \in LoopCodes :
        /\ call' = Some([fn |-> "_estimate_time_complexity", arg |-> code])
        /\ ret' = Some(estimate_time_complexity(code))
    /\ UNCHANGED <<genVars, anaVars, langVars>>

NextMetrics ==
    \/ CallReadability
    \/ CallComplexity
    \/ CallTimeComplexity

SpecMetrics == InitMetrics /\ [][NextMetrics]_vars

Called(fn) == call # None /\ Value(call).fn = fn

Arg == Value(call).arg

\* C9: the readability score is within [0, 100] for every input text.
C9_ReadabilityInRange ==
    Called("_calculate_readability") =>
        /\ 0 <= Value(ret).num
        /\ Value(ret).num <= 100 * Value(ret).den

\* more than 50 lines with every penalty at its cap: the score is exactly 30
C9_Witness ==
    /\ Called("_calculate_readability")
    /\ Len(Arg) > 50
    /\ indent_issues(Arg) >= 10
    /\ Value(ret).num = 30 * Value(ret).den

KeywordFree(code) ==
    \A k \in 1..Len(decision_keywords) : ~Contains(code, decision_keywords[k])

\* C10: the cyclomatic complexity is always >= 1, and exactly 1 for every source
\* text that contains none of the decision keywords.
C10_ComplexityBase ==
    Called("_calculate_cyclomatic_complexity") =>
        /\ Value(ret) >= 1
        /\ KeywordFree(Arg) => Value(ret) = 1

\* a keyword-free text of several words and lines, complexity 1
C10_Witness ==
    /\ Called("_calculate_cyclomatic_complexity")
    /\ KeywordFree(Arg)
    /\ Contains(Arg, <<" ", "x", " ">>)
    /\ Contains(Arg, <<"\n">>)
    /\ Value(ret) = 1

----------------------------------------------------------------------------
(* services/code_analyzer.py : Syntax Checker                               *)

\* an issue record; a key the source leaves out is None
Issue(message, line, column) ==
    [type |-> "error", message |-> message, line |-> line, column |-> column]

\* a tree-sitter node
Node(type, is_missing, is_extra, start_point, end_point, children) ==
    [type |-> type, is_missing |-> is_missing, is_extra |-> is_extra,
     start_point |-> start_point, end_point |-> end_point, children |-> children]

\* _find_syntax_errors_children_first visiting the children before the node itself
RECURSIVE find_syntax_errors_children_first(_)
find_syntax_errors_children_first(node) ==
    LET own == IF node.type = "ERROR" \/ node.is_missing
               THEN <<Issue(<<"Syntax error at line ", ToString(node.start_point[1] + 1)>>,
                            Some(node.start_point[1] + 1), Some(node.start_point[2]))>>
               ELSE <<>>
    IN Concat([k \in 1..Len(node.children) |-> find_syntax_errors_children_first(node.children[k])])
       \o own

\* CodeAnalyzerService._find_syntax_errors: depth first, pre-order
RECURSIVE find_syntax_errors(_)
find_syntax_errors(node) ==
    LET own == IF node.type = "ERROR" \/ node.is_missing
               THEN <<Issue(<<"Syntax error at line ", ToString(node.start_point[1] + 1)>>,
                            Some(node.start_point[1] + 1), Some(node.start_point[2]))>>
               ELSE <<>>
    IN own \o Concat([k \in 1..Len(node.children) |-> find_syntax_errors(node.children[k])])

\* the children that are not extra nodes, in order
RECURSIVE NotExtra(_)
NotExtra(children) ==
    IF children = <<>> THEN <<>>
    ELSE IF ~Head(children).is_extra THEN <<Head(children)>> \o NotExtra(Tail(children))
    ELSE NotExtra(Tail(children))

\* CodeAnalyzerService._node_to_dict
RECURSIVE node_to_dict(_)
node_to_dict(node) ==
    LET kept == NotExtra(node.children)
    IN [type |-> node.type,
        start |-> [line |-> node.start_point[1], column |-> node.start_point[2]],
        end |-> [line |-> node.end_point[1], column |-> node.end_point[2]],
        children |-> [k \in 1..Len(kept) |-> node_to_dict(kept[k])]]

\* the branch of _check_syntax taken when the language has no loaded parser
check_syntax_no_parser(language) ==
    [valid |-> TRUE,
     issues |-> <<Issue(<<"Parser not available for ", language>>, None, None)>>,
     ast |-> None]

\* CodeAnalyzerService._check_syntax; compiled is the outcome of compile(code),
\* parsed the outcome of parser.parse(code)
check_syntax(code, language, ts_available, loaded, compiled, parsed) ==
    IF ~ts_available
    THEN IF language = "python"
         THEN IF ~compiled.raised
              THEN Return([valid |-> TRUE, issues |-> <<>>, ast |-> None])
              ELSE IF Value(compiled.exc).type = "SyntaxError"
              THEN Return([valid |-> FALSE,
                           issues |-> <<Issue(<<"Syntax error: ">> \o Str(Value(compiled.exc)),
                                              Value(compiled.exc).lineno, None)>>,
                           ast |-> None])
              ELSE compiled
         ELSE Return([valid |-> TRUE, issues |-> <<>>, ast |-> None])
    ELSE IF language \notin loaded
    THEN Return(check_syntax_no_parser(language))
    ELSE IF parsed.raised
    THEN Return([valid |-> FALSE,
                 issues |-> <<Issue(<<"Parse error: ">> \o Str(Value(parsed.exc)), None, None)>>,
                 ast |-> None])
    ELSE LET root == Value(parsed.value)
             errors == find_syntax_errors(root)
         IN Return([valid |-> errors = <<>>,
                    issues |-> errors,
                    ast |-> Some(node_to_dict(root))])

----------------------------------------------------------------------------
(* services/code_analyzer.py : Suggestion Generator and Formatter           *)

error_keywords == {<<"t", "r", "y">>, <<"e", "x", "c", "e", "p", "t">>, <<"c", "a", "t", "c", "h">>, <<"t", "h", "r", "o", "w">>, <<"r", "e", "s", "c", "u", "e">>}

\* re.findall of the digit-run pattern: start positions of the digit runs that
\* have a word boundary on both sides
NumberMatches(code) ==
    {a \in 1..Len(code) :
        /\ code[a] \in Digits
        /\ (a = 1 \/ code[a - 1] \notin WordChars)
        /\ LET stops == {j \in a..Len(code) : code[j] \notin Digits}
           IN stops = {} \/ code[SetMin(stops)] \notin WordChars}

\* s when cond holds, nothing otherwise
When(cond, text) == IF cond THEN <<text>> ELSE <<>>

\* _generate_suggestions asking for type hints only when no docstring was asked for
generate_suggestions_elif(code, language, metrics) ==
    LET lines == Split(code, "\n")
    IN When(language = "python" /\ ~Contains(code, <<"\"", "\"", "\"">>) /\ Contains(code, <<"d", "e", "f", " ">>),
            "Add docstrings to functions for better documentation")
       \o When(language = "python" /\ Contains(code, <<"\"", "\"", "\"">>) /\ ~Contains(code, <<"-", ">">>) /\ Contains(code, <<"d", "e", "f", " ">>),
            "Consider adding type hints for better code clarity")
       \o When(~\E kw \in error_keywords : Contains(code, kw),
            "Consider adding error handling for robustness")
       \o When(metrics # None /\ Value(metrics).cyclomatic_complexity > 10,
            "Consider refactoring to reduce complexity")
       \o When(\E i \in 1..Len(lines) : Len(lines[i]) > 100,
            "Some lines exceed 100 characters - consider breaking them up")
       \o When(Cardinality(NumberMatches(code)) > 5,
            "Consider using named constants instead of magic numbers")

\* _generate_suggestions counting the distinct numeric literals
generate_suggestions_distinct_numbers(code, language, metrics) ==
    LET lines == Split(code, "\n")
    IN When(language = "python" /\ ~Contains(code, <<"\"", "\"", "\"">>) /\ Contains(code, <<"d", "e", "f", " ">>),
            "Add docstrings to functions for better documentation")
       \o When(language = "python" /\ ~Contains(code, <<"-", ">">>) /\ Contains(code, <<"d", "e", "f", " ">>),
            "Consider adding type hints for better code clarity")
       \o When(~\E kw \in error_keywords : Contains(code, kw),
            "Consider adding error handling for robustness")
       \o When(metrics # None /\ Value(metrics).cyclomatic_complexity > 10,
            "Consider refactoring to reduce complexity")
       \o When(\E i \in 1..Len(lines) : Len(lines[i]) > 100,
            "Some lines exceed 100 characters - consider breaking them up")
       \o When(Cardinality({SubSeq(code, a, WordRunEnd(code, a) - 1) : a \in NumberMatches(code)}) > 5,
            "Consider using named constants instead of magic numbers")

\* CodeAnalyzerService._generate_suggestions
generate_suggestions(code, language, metrics) ==
    LET lines == Split(code, "\n")
    IN When(language = "python" /\ ~Contains(code, <<"\"", "\"", "\"">>) /\ Contains(code, <<"d", "e", "f", " ">>),
            "Add docstrings to functions for better documentation")
       \o When(language = "python" /\ ~Contains(code, <<"-", ">">>) /\ Contains(code, <<"d", "e", "f", " ">>),
            "Consider adding type hints for better code clarity")
       \o When(~\E kw \in error_keywords : Contains(code, kw),
            "Consider adding error handling for robustness")
       \o When(metrics # None /\ Value(metrics).cyclomatic_complexity > 10,
            "Consider refactoring to reduce complexity")
       \o When(\E i \in 1..Len(lines) : Len(lines[i]) > 100,
            "Some lines exceed 100 characters - consider breaking them up")
       \o When(Cardinality(NumberMatches(code)) > 5,
            "Consider using named constants instead of magic numbers")

\* _format_code trying autopep8 before black
format_code_lenient_first(code, language, blacked, autopep8ed) ==
    IF language = "python"
    THEN IF ~autopep8ed.raised THEN autopep8ed
         ELSE IF ~blacked.raised THEN blacked
         ELSE Return(code)
    ELSE Return(code)

\* _format_code without the outer try/except: a failure of autopep8 propagates
format_code_no_outer_except(code, language, blacked, autopep8ed) ==
    IF language = "python"
    THEN IF ~blacked.raised THEN blacked ELSE autopep8ed
    ELSE Return(code)

\* CodeAnalyzerService._format_code; blacked and autopep8ed are the outcomes of
\* black.format_str(code) and autopep8.fix_code(code).  The outcome of the call:
\* every path of the source returns.
format_code(code, language, blacked, autopep8ed) ==
    IF language = "python"
    THEN IF ~blacked.raised THEN blacked
         ELSE IF ~autopep8ed.raised THEN autopep8ed
         ELSE Return(code)
    ELSE Return(code)

\* the formatters _format_code calls, in order
format_code_calls(language, blacked) ==
    IF language = "python"
    THEN <<"black">> \o When(blacked.raised, "autopep8")
    ELSE <<>>

----------------------------------------------------------------------------
(* services/code_analyzer.py : Analysis Orchestrator, and the endpoints of  *)
(* api/endpoints/analyze.py                                                 *)

CODE_MIN_LENGTH == 1

CODE_MAX_LENGTH == 10000

\* AnalysisRequest without the min_length constraint on code
AnalysisRequest_no_min_length(raw) ==
    IF Len(raw.code) > CODE_MAX_LENGTH
    THEN Raise(Exc("ValidationError", 422, <<"code length">>))
    ELSE Return(raw)

\* AnalysisRequest(**raw): the field constraints on code
AnalysisRequest(raw) ==
    IF Len(raw.code) < CODE_MIN_LENGTH \/ Len(raw.code) > CODE_MAX_LENGTH
    THEN Raise(Exc("ValidationError", 422, <<"code length">>))
    ELSE Return(raw)

\* analyze_code handing freshly computed metrics to the suggestion step whatever
\* check_complexity says
analyze_code_metrics_always(request, ts_available, loaded, ext) ==
    LET syntax_result == check_syntax(request.code, request.language, ts_available,
                                      loaded, ext.compiled, ext.parsed)
        metrics == IF request.check_complexity
                   THEN Some(calculate_metrics(request.code, request.language))
                   ELSE None
        formatted == format_code(request.code, request.language,
                                 ext.blacked, ext.autopep8ed)
        ran == When(request.check_syntax, "syntax")
               \o When(request.check_complexity, "metrics")
               \o When(request.suggest_improvements, "suggestions")
               \o (IF request.format_code
                   THEN <<"format">> \o format_code_calls(request.language, ext.blacked)
                   ELSE <<>>)
    IN IF request.check_syntax /\ syntax_result.raised
       THEN [outcome |-> syntax_result, steps |-> <<"syntax">>]
       ELSE IF request.format_code /\ formatted.raised
       THEN [outcome |-> formatted, steps |-> ran]
       ELSE [outcome |-> Return(
               [valid |-> IF request.check_syntax
                          THEN Value(syntax_result.value).valid ELSE FALSE,
                issues |-> IF request.check_syntax
                           THEN Value(syntax_result.value).issues ELSE <<>>,
                ast_structure |-> IF request.check_syntax
                                  THEN Value(syntax_result.value).ast ELSE None,
                metrics |-> metrics,
                suggestions |-> IF request.suggest_improvements
                                THEN generate_suggestions(request.code, request.language,
                                         Some(calculate_metrics(request.code, request.language)))
                                ELSE <<>>,
                formatted_code |-> IF request.format_code
                                   THEN formatted.value
                                   ELSE None]),
             steps |-> ran]

\* analyze_code swallowing the exception of the syntax step and returning the
\* result dict as far as it was filled
analyze_code_partial_result(request, ts_available, loaded, ext) ==
    LET syntax_result == check_syntax(request.code, request.language, ts_available,
                                      loaded, ext.compiled, ext.parsed)
        metrics == IF request.check_complexity
                   THEN Some(calculate_metrics(request.code, request.language))
                   ELSE None
        formatted == format_code(request.code, request.language,
                                 ext.blacked, ext.autopep8ed)
        ran == When(request.check_syntax, "syntax")
               \o When(request.check_complexity, "metrics")
               \o When(request.suggest_improvements, "suggestions")
               \o (IF request.format_code
                   THEN <<"format">> \o format_code_calls(request.language, ext.blacked)
                   ELSE <<>>)
    IN IF request.check_syntax /\ syntax_result.raised
       THEN [outcome |-> Return([valid |-> FALSE, issues |-> <<>>, ast_structure |-> None,
                                 metrics |-> None, suggestions |-> <<>>,
                                 formatted_code |-> None]),
             steps |-> <<"syntax">>]
       ELSE IF request.format_code /\ formatted.raised
       THEN [outcome |-> formatted, steps |-> ran]
       ELSE [outcome |-> Return(
               [valid |-> IF request.check_syntax
                          THEN Value(syntax_result.value).valid ELSE FALSE,
                issues |-> IF request.check_syntax
                           THEN Value(syntax_result.value).issues ELSE <<>>,
                ast_structure |-> IF request.check_syntax
                                  THEN Value(syntax_result.value).ast ELSE None,
                metrics |-> metrics,
                suggestions |-> IF request.suggest_improvements
                                THEN generate_suggestions(request.code, request.language,
                                                          metrics)
                                ELSE <<>>,
                formatted_code |-> IF request.format_code
                                   THEN formatted.value
                                   ELSE None]),
             steps |-> ran]

\* analyze_code starting from valid = True
analyze_code_valid_by_default(request, ts_available, loaded, ext) ==
    LET syntax_result == check_syntax(request.code, request.language, ts_available,
                                      loaded, ext.compiled, ext.parsed)
        metrics == IF request.check_complexity
                   THEN Some(calculate_metrics(request.code, request.language))
                   ELSE None
        formatted == format_code(request.code, request.language,
                                 ext.blacked, ext.autopep8ed)
        ran == When(request.check_syntax, "syntax")
               \o When(request.check_complexity, "metrics")
               \o When(request.suggest_improvements, "suggestions")
               \o (IF request.format_code
                   THEN <<"format">> \o format_code_calls(request.language, ext.blacked)
                   ELSE <<>>)
    IN IF request.check_syntax /\ syntax_result.raised
       THEN [outcome |-> syntax_result, steps |-> <<"syntax">>]
       ELSE IF request.format_code /\ formatted.raised
       THEN [outcome |-> formatted, steps |-> ran]
       ELSE [outcome |-> Return(
               [valid |-> IF request.check_syntax
                          THEN Value(syntax_result.value).valid ELSE TRUE,
                issues |-> IF request.check_syntax
                           THEN Value(syntax_result.value).issues ELSE <<>>,
                ast_structure |-> IF request.check_syntax
                                  THEN Value(syntax_result.value).ast ELSE None,
                metrics |-> metrics,
                suggestions |-> IF request.suggest_improvements
                                THEN generate_suggestions(request.code, request.language,
                                                          metrics)
                                ELSE <<>>,
                formatted_code |-> IF request.format_code
                                   THEN formatted.value
                                   ELSE None]),
             steps |-> ran]

\* CodeAnalyzerService.analyze_code: the outcome (result dict or exception) and
\* the sub-steps run, in order.  ext holds the outcomes of the external calls.
analyze_code(request, ts_available, loaded, ext) ==
    LET syntax_result == check_syntax(request.code, request.language, ts_available,
                                      loaded, ext.compiled, ext.parsed)
        metrics == IF request.check_complexity
                   THEN Some(calculate_metrics(request.code, request.language))
                   ELSE None
        formatted == format_code(request.code, request.language,
                                 ext.blacked, ext.autopep8ed)
        ran == When(request.check_syntax, "syntax")
               \o When(request.check_complexity, "metrics")
               \o When(request.suggest_improvements, "suggestions")
               \o (IF request.format_code
                   THEN <<"format">> \o format_code_calls(request.language, ext.blacked)
                   ELSE <<>>)
    IN IF request.check_syntax /\ syntax_result.raised
       THEN [outcome |-> syntax_result, steps |-> <<"syntax">>]
       ELSE IF request.format_code /\ formatted.raised
       THEN [outcome |-> formatted, steps |-> ran]
       ELSE [outcome |-> Return(
               [valid |-> IF request.check_syntax
                          THEN Value(syntax_result.value).valid ELSE FALSE,
                issues |-> IF request.check_syntax
                           THEN Value(syntax_result.value).issues ELSE <<>>,
                ast_structure |-> IF request.check_syntax
                                  THEN Value(syntax_result.value).ast ELSE None,
                metrics |-> metrics,
                suggestions |-> IF request.suggest_improvements
                                THEN generate_suggestions(request.code, request.language,
                                                          metrics)
                                ELSE <<>>,
                formatted_code |-> IF request.format_code
                                   THEN formatted.value
                                   ELSE None]),
             steps |-> ran]

\* AnalysisResponse built by the /analyze handler from the result dict
AnalysisResponse(request, result) ==
    LET metrics == result.metrics
        complexity == IF metrics # None THEN Value(metrics).cyclomatic_complexity ELSE 1
    IN [syntax_valid |-> result.valid,
        language |-> request.language,
        complexity |-> complexity,
        readability_score |-> IF metrics # None THEN Value(metrics).readability_score
                              ELSE [num |-> 85, den |-> 1],
        performance_score |-> Max(0, Min(100, 100 - complexity * 5)),
        lines_of_code |-> IF metrics # None THEN Value(metrics).lines_of_code ELSE 0,
        syntax_errors |-> result.issues,
        suggestions |-> result.suggestions,
        metrics |-> metrics,
        formatted_code |-> result.formatted_code,
        ast_structure |-> result.ast_structure]

\* analyze.py analyze_code: the response to a validated request
analyze_endpoint(request, run) ==
    IF run.outcome.raised
    THEN IF Value(run.outcome.exc).type = "ValueError"
         THEN Http(400, <<"Invalid request data: ">> \o Str(Value(run.outcome.exc)), None)
         ELSE Http(500, <<"Code analysis failed: ">> \o Str(Value(run.outcome.exc)), None)
    ELSE Http(200, <<>>, Some(AnalysisResponse(request, Value(run.outcome.value))))

\* the request analyze.py format_code hands to the service
format_request(request) ==
    [request EXCEPT !.check_syntax = FALSE, !.check_complexity = FALSE,
                    !.suggest_improvements = FALSE, !.format_code = TRUE]

\* analyze.py format_code: the response to a validated request
format_endpoint(request, run) ==
    IF run.outcome.raised
    THEN Http(500, <<"Code formatting failed: ">> \o Str(Value(run.outcome.exc)), None)
    ELSE IF Value(run.outcome.value).formatted_code \in {None, Some(<<>>)}
    THEN Http(500, <<"Code formatting failed: ">>
                    \o Str(HTTPException(400, <<"Could not format code">>)), None)
    ELSE Http(200, <<>>,
               Some([formatted_code |-> Value(Value(run.outcome.value).formatted_code),
                     language |-> request.language]))

\* the request analyze.py validate_syntax hands to the service
validate_request(request) ==
    [request EXCEPT !.check_syntax = TRUE, !.check_complexity = FALSE,
                    !.suggest_improvements = FALSE, !.format_code = FALSE]

\* analyze.py validate_syntax: the response to a validated request
validate_endpoint(request, run) ==
    IF run.outcome.raised
    THEN Http(500, <<"Syntax validation failed: ">> \o Str(Value(run.outcome.exc)), None)
    ELSE Http(200, <<>>,
               Some([valid |-> Value(run.outcome.value).valid,
                     language |-> request.language,
                     issues |-> Value(run.outcome.value).issues]))

----------------------------------------------------------------------------
(* Inputs of the analysis endpoints                                         *)

AnaLanguages == {"python", "javascript"}

\* five ? and five if between spaces: cyclomatic complexity 11
BranchyCode ==
    <<"a">> \o Concat([k \in 1..5 |-> <<" ", "?", " ", "i", "f">>]) \o <<" ", "b">>

SmallCodes ==
    {<<>>,
     <<"x", " ", "=", " ", "1">>,
     <<"d", "e", "f", " ", "f", "(", "x", ")", ":", "\n", " ", " ", " ", " ", "r", "e", "t", "u", "r", "n", " ", "f", "(", "x", ")">>,
     BranchyCode}

BigCodes == {X(CODE_MAX_LENGTH), X(CODE_MAX_LENGTH + 1)}

AnalysisBodies ==
    [code : SmallCodes, language : AnaLanguages, check_syntax : BOOLEAN,
     check_complexity : BOOLEAN, suggest_improvements : BOOLEAN, format_code : BOOLEAN]
    \cup
    [code : BigCodes, language : {"python"}, check_syntax : {TRUE},
     check_complexity : {FALSE}, suggest_improvements : {FALSE}, format_code : {FALSE}]

\* bodies sent to /analyze/format and /analyze/validate, which overwrite the flags
DefaultFlagBodies ==
    {b \in AnalysisBodies :
        /\ b.check_syntax /\ ~b.format_code
        /\ (b.code \in SmallCodes => b.check_complexity /\ b.suggest_improvements)}

\* parse trees tree-sitter may hand back
CleanTree ==
    Node("module", FALSE, FALSE, <<0, 0>>, <<1, 0>>,
         <<Node("comment", FALSE, TRUE, <<0, 0>>, <<0, 3>>, <<>>),
           Node("expression_statement", FALSE, FALSE, <<0, 4>>, <<0, 9>>, <<>>)>>)

BrokenTree ==
    Node("module", FALSE, FALSE, <<0, 0>>, <<2, 0>>,
         <<Node("ERROR", FALSE, FALSE, <<0, 4>>, <<0, 9>>,
                <<Node("identifier", FALSE, FALSE, <<0, 4>>, <<0, 5>>, <<>>),
                  Node(")", TRUE, FALSE, <<0, 9>>, <<0, 9>>, <<>>)>>),
           Node("expression_statement", FALSE, FALSE, <<1, 0>>, <<1, 3>>,
                <<Node(":", TRUE, FALSE, <<1, 3>>, <<1, 3>>, <<>>)>>)>>)

ParseOutcomes ==
    {Return(CleanTree), Return(BrokenTree), Raise(Exc("Exception", 0, <<"parse failed">>))}

SyntaxError(detail, lineno) ==
    [type |-> "SyntaxError", status_code |-> 0, detail |-> detail, lineno |-> lineno]

CompileOutcomes ==
    {Return(<<"code object">>),
     Raise(SyntaxError(<<"invalid syntax">>, Some(2))),
     Raise(Exc("ValueError", 0, <<"source code string cannot contain null bytes">>)),
     Raise(Exc("MemoryError", 0, <<>>))}

BlackOutcomes(code) ==
    {Return(Strip(code) \o <<"\n">>), Return(<<>>),
     Raise(Exc("InvalidInput", 0, <<"Cannot parse">>))}

Autopep8Outcomes(code) ==
    {Return(code), Raise(Exc("Exception", 0, <<"autopep8 failed">>))}

Externals(code) ==
    [compiled : CompileOutcomes, parsed : ParseOutcomes,
     blacked : BlackOutcomes(code), autopep8ed : Autopep8Outcomes(code)]

----------------------------------------------------------------------------
(* The analysis endpoints as a state machine: the service is built once, at *)
(* import; one HTTP request is served per behaviour, synchronously          *)

InitAnalyze ==
    /\ openai_api_key = <<>>
    /\ GenerationIdle
    /\ UnitIdle
    /\ TREE_SITTER_AVAILABLE \in BOOLEAN
    /\ parsers \in (IF TREE_SITTER_AVAILABLE THEN SUBSET AnaLanguages ELSE {{}})
    /\ areq = None
    /\ steps = <<>>
    /\ aresult = None
    /\ aresponse = None

\* FastAPI refuses the body before the handler is entered
RejectAnalysis(e) ==
    /\ steps' = <<>>
    /\ aresult' = None
    /\ aresponse' = Some(Unprocessable(e))

\* analyzer_service.analyze_code(request) inside a handler
RunAnalysis(run) ==
    /\ steps' = run.steps
    /\ aresult' = run.outcome.value

\* POST /analyze
PostAnalyze ==
    /\ areq = None
    /\ \E raw \in AnalysisBodies :
        LET parsed == AnalysisRequest(raw)
        IN IF parsed.raised
           THEN /\ areq' = Some([route |-> "/analyze", body |-> raw, env |-> None])
                /\ RejectAnalysis(Value(parsed.exc))
           ELSE \E ext \in Externals(raw.code) :
                    /\ areq' = Some([route |-> "/analyze", body |-> raw, env |-> Some(ext)])
                    /\ LET request == Value(parsed.value)
                           run == analyze_code(request, TREE_SITTER_AVAILABLE, parsers, ext)
                       IN /\ RunAnalysis(run)
                          /\ aresponse' = Some(analyze_endpoint(request, run))
    /\ UNCHANGED <<TREE_SITTER_AVAILABLE, parsers, genVars, fnVars, langVars>>

\* POST /analyze/format
PostFormat ==
    /\ areq = None
    /\ \E raw \in DefaultFlagBodies :
        LET parsed == AnalysisRequest(raw)
        IN IF parsed.raised
           THEN /\ areq' = Some([route |-> "/analyze/format", body |-> raw, env |-> None])
                /\ RejectAnalysis(Value(parsed.exc))
           ELSE \E ext \in Externals(raw.code) :
                    /\ areq' = Some([route |-> "/analyze/format", body |-> raw, env |-> Some(ext)])
                    /\ LET request == Value(parsed.value)
                           run == analyze_code(format_request(request),
                                               TREE_SITTER_AVAILABLE, parsers, ext)
                       IN /\ RunAnalysis(run)
                          /\ aresponse' = Some(format_endpoint(request, run))
    /\ UNCHANGED <<TREE_SITTER_AVAILABLE, parsers, genVars, fnVars, langVars>>

\* POST /analyze/validate
PostValidate ==
    /\ areq = None
    /\ \E raw \in DefaultFlagBodies :
        LET parsed == AnalysisRequest(raw)
        IN IF parsed.raised
           THEN /\ areq' = Some([route |-> "/analyze/validate", body |-> raw, env |-> None])
                /\ RejectAnalysis(Value(parsed.exc))
           ELSE \E ext \in Externals(raw.code) :
                    /\ areq' = Some([route |-> "/analyze/validate", body |-> raw, env |-> Some(ext)])
                    /\ LET request == Value(parsed.value)
                           run == analyze_code(validate_request(request),
                                               TREE_SITTER_AVAILABLE, parsers, ext)
                       IN /\ RunAnalysis(run)
                          /\ aresponse' = Some(validate_endpoint(request, run))
    /\ UNCHANGED <<TREE_SITTER_AVAILABLE, parsers, genVars, fnVars, langVars>>

NextAnalyze ==
    \/ PostAnalyze
    \/ PostFormat
    \/ PostValidate

SpecAnalyze == InitAnalyze /\ [][NextAnalyze]_vars

----------------------------------------------------------------------------
(* Properties of the analysis endpoints                                     *)

Served(route) == areq # None /\ Value(areq).route = route

Sent == Value(areq).body

AnalyzerRoutes == {"/analyze", "/analyze/format", "/analyze/validate"}

C7_NoParserInvalid ==
    (/\ Served("/analyze/validate")
     /\ TREE_SITTER_AVAILABLE
     /\ Sent.language \notin parsers
     /\ aresult # None) =>
        /\ Value(aresult).valid = FALSE
        /\ Len(Value(aresult).issues) = 1

\* C8: POST /analyze with code "" and language python, default flags, succeeds with
\* status 200 and yields syntax_valid = true, lines_of_code = 0 and complexity = 1.
C8_EmptyCodeAnalyzed ==
    (/\ Served("/analyze")
     /\ Sent.code = <<>>
     /\ Sent.language = "python"
     /\ Sent.check_syntax /\ Sent.check_complexity
     /\ Sent.suggest_improvements /\ ~Sent.format_code) =>
        /\ Value(aresponse).status_code = 200
        /\ Value(aresponse).json # None
        /\ Value(Value(aresponse).json).syntax_valid = TRUE
        /\ Value(Value(aresponse).json).lines_of_code = 0
        /\ Value(Value(aresponse).json).complexity = 1

----------------------------------------------------------------------------
(* Unit calls of the Formatter                                              *)

FormatCodes ==
    {<<>>, <<"x", "=", "1">>, <<"x", " ", "=", " ", "1", "\n">>, <<"d", "e", "f", " ", "(">>,
     <<" ", "y", "\n", "\n">>}

\* black.format_str on text that black itself produced hands it back unchanged
BlackStable(text) == {Return(text)}

\* _format_code(code, language)
CallFormat ==
    /\ call = None
    /\ \E code \in FormatCodes, language \in AnaLanguages :
        \E blacked \in BlackOutcomes(code), autopep8ed \in Autopep8Outcomes(code) :
            /\ call' = Some([fn |-> "_format_code",
                             arg |-> [code |-> code, language |-> language,
                                      blacked |-> blacked, autopep8ed |-> autopep8ed]])
            /\ ret' = Some([outcome |-> format_code(code, language, blacked, autopep8ed),
                            calls |-> format_code_calls(language, blacked)])
    /\ UNCHANGED <<genVars, anaVars, langVars>>

\* _format_code(_format_code(code, language), language)
CallFormatTwice ==
    /\ call = None
    /\ \E code \in FormatCodes, language \in AnaLanguages :
        \E blacked \in BlackOutcomes(code), autopep8ed \in Autopep8Outcomes(code) :
            LET first == format_code(code, language, blacked, autopep8ed)
                text == IF first.raised THEN code ELSE Value(first.value)
            IN \E reblacked \in (IF blacked.raised THEN BlackOutcomes(text)
                                 ELSE BlackStable(text)),
                  reautopep8ed \in Autopep8Outcomes(text) \cup {Return(Strip(text))} :
                    /\ call' = Some([fn |-> "_format_code twice",
                                     arg |-> [code |-> code, language |-> language,
                                              blacked |-> blacked,
                                              autopep8ed |-> autopep8ed]])
                    /\ ret' = Some([first |-> first,
                                    second |-> IF first.raised THEN first
                                               ELSE format_code(text, language,
                                                                reblacked, reautopep8ed)])
    /\ UNCHANGED <<genVars, anaVars, langVars>>

NextFormatter ==
    \/ CallFormat
    \/ CallFormatTwice

SpecFormatter == InitMetrics /\ [][NextFormatter]_vars

\* C11: the Formatter never raises.  For python it calls the strict formatter
\* (black) first, the lenient auto-fixer (autopep8) only when black failed, and
\* returns the original text when both failed; for every other language it
\* returns the input unchanged and calls no formatter.
C11_FormatterNeverRaises ==
    Called("_format_code") =>
        LET out == Value(ret).outcome
            calls == Value(ret).calls
        IN /\ ~out.raised
           /\ Arg.language # "python" => out = Return(Arg.code) /\ calls = <<>>
           /\ Arg.language = "python" =>
                /\ calls[1] = "black"
                /\ ~Arg.blacked.raised => out = Arg.blacked /\ calls = <<"black">>
                /\ Arg.blacked.raised => calls = <<"black", "autopep8">>
                /\ (Arg.blacked.raised /\ ~Arg.autopep8ed.raised) => out = Arg.autopep8ed
                /\ (Arg.blacked.raised /\ Arg.autopep8ed.raised) => out = Return(Arg.code)

\* python text on which black and autopep8 both fail comes back unchanged
C11_Witness ==
    /\ Called("_format_code")
    /\ Arg.language = "python"
    /\ Arg.code # <<>>
    /\ Arg.blacked.raised /\ Arg.autopep8ed.raised
    /\ Value(ret).calls = <<"black", "autopep8">>
    /\ Value(ret).outcome = Return(Arg.code)

----------------------------------------------------------------------------
(* api/endpoints/languages.py : GET /languages                              *)

ProgrammingLanguage(code, name, version) ==
    [code |-> code, name |-> name, version |-> version]

NaturalLanguage(code, name) == [code |-> code, name |-> name]

\* the body without the swift entry
get_supported_languages_without_swift ==
    [programming_languages |->
        <<ProgrammingLanguage("python", "Python", "3.8+"),
          ProgrammingLanguage("javascript", "JavaScript", "ES6+"),
          ProgrammingLanguage("typescript", "TypeScript", "4.0+"),
          ProgrammingLanguage("java", "Java", "11+"),
          ProgrammingLanguage("csharp", "C#", ".NET 6+"),
          ProgrammingLanguage("go", "Go", "1.16+"),
          ProgrammingLanguage("rust", "Rust", "2021 Edition"),
          ProgrammingLanguage("cpp", "C++", "C++17"),
          ProgrammingLanguage("ruby", "Ruby", "3.0+")>>,
     natural_languages |-> <<>>,
     test_frameworks |-> <<>>]

\* get_supported_languages(): the LanguagesResponse body
get_supported_languages ==
    [programming_languages |->
        <<ProgrammingLanguage("python", "Python", "3.8+"),
          ProgrammingLanguage("javascript", "JavaScript", "ES6+"),
          ProgrammingLanguage("typescript", "TypeScript", "4.0+"),
          ProgrammingLanguage("java", "Java", "11+"),
          ProgrammingLanguage("csharp", "C#", ".NET 6+"),
          ProgrammingLanguage("go", "Go", "1.16+"),
          ProgrammingLanguage("rust", "Rust", "2021 Edition"),
          ProgrammingLanguage("cpp", "C++", "C++17"),
          ProgrammingLanguage("ruby", "Ruby", "3.0+"),
          ProgrammingLanguage("swift", "Swift", "5.0+")>>,
     natural_languages |->
        <<NaturalLanguage("english", "English"),
          NaturalLanguage("spanish", "Spanish"),
          NaturalLanguage("french", "French"),
          NaturalLanguage("german", "German"),
          NaturalLanguage("chinese", "Chinese (Simplified)"),
          NaturalLanguage("japanese", "Japanese"),
          NaturalLanguage("portuguese", "Portuguese"),
          NaturalLanguage("italian", "Italian"),
          NaturalLanguage("russian", "Russian"),
          NaturalLanguage("arabic", "Arabic")>>,
     test_frameworks |->
        [python |-> <<"pytest", "unittest", "nose2", "doctest">>,
         javascript |-> <<"jest", "mocha", "jasmine", "vitest", "cypress">>,
         typescript |-> <<"jest", "mocha", "jasmine", "vitest", "cypress">>,
         java |-> <<"junit", "testng", "mockito", "assertj">>,
         csharp |-> <<"xunit", "nunit", "mstest">>,
         go |-> <<"testing", "testify", "ginkgo">>,
         rust |-> <<"cargo test", "proptest">>,
         cpp |-> <<"gtest", "catch2", "boost.test">>,
         ruby |-> <<"rspec", "minitest", "cucumber">>,
         swift |-> <<"xctest", "quick">>]]

MaxLanguageCalls == 3

\* GET /languages
GetLanguages ==
    /\ Len(served) < MaxLanguageCalls
    /\ served' = Append(served, get_supported_languages)
    /\ UNCHANGED <<genVars, anaVars, fnVars>>

\* the languages endpoint next to the analysis endpoints of the same application
NextLanguages ==
    \/ GetLanguages
    \/ PostValidate
    \/ PostFormat

SpecLanguages == InitAnalyze /\ [][NextLanguages]_vars

LanguageCodes(json) ==
    {json.programming_languages[k].code : k \in 1..Len(json.programming_languages)}

\* C13: GET /languages returns the same fixed set of exactly the 10 programming
\* languages on every call, whatever was handled before; any two calls return
\* equal bodies.
C13_LanguagesFixed ==
    /\ \A i \in 1..Len(served) :
        /\ Len(served[i].programming_languages) = 10
        /\ LanguageCodes(served[i]) =
            {"python", "javascript", "typescript", "java", "csharp",
             "go", "rust", "cpp", "ruby", "swift"}
    /\ \A i, j \in 1..Len(served) : served[i] = served[j]

\* two calls with an analysis request handled along the way
C13_Witness ==
    /\ Len(served) >= 2
    /\ areq # None
    /\ aresult # None

----------------------------------------------------------------------------
(* Properties of POST /analyze that depend on what the external parsers say *)

Env == Value(Value(areq).env)

\* the python text does not parse: compile() raises SyntaxError, the grammar
\* yields a tree with error or missing nodes, or the parser fails on it
DoesNotParse ==
    IF TREE_SITTER_AVAILABLE
    THEN Env.parsed.raised \/ find_syntax_errors(Value(Env.parsed.value)) # <<>>
    ELSE Env.compiled.raised /\ Value(Env.compiled.exc).type = "SyntaxError"

\* C14: analyzing python code that does not parse, with check_syntax set, yields
\* syntax_valid = false and at least one entry in syntax_errors, in parser-backed
\* mode and in fallback mode alike.
C14_InvalidSyntaxReported ==
    (/\ Served("/analyze")
     /\ Value(areq).env # None
     /\ Sent.language = "python"
     /\ Sent.check_syntax
     /\ DoesNotParse) =>
        /\ Value(aresponse).status_code = 200
        /\ Value(Value(aresponse).json).syntax_valid = FALSE
        /\ Len(Value(Value(aresponse).json).syntax_errors) >= 1

\* the characters of a suggestion text
Characters(text) ==
    CASE text = "Add docstrings to functions for better documentation" ->
            <<"A", "d", "d", " ", "d", "o", "c", "s", "t", "r", "i", "n", "g", "s", " ", "t", "o", " ", "f", "u", "n", "c", "t", "i", "o", "n", "s", " ", "f", "o", "r", " ", "b", "e", "t", "t", "e", "r", " ", "d", "o", "c", "u", "m", "e", "n", "t", "a", "t", "i", "o", "n">>
      [] text = "Consider adding type hints for better code clarity" ->
            <<"C", "o", "n", "s", "i", "d", "e", "r", " ", "a", "d", "d", "i", "n", "g", " ", "t", "y", "p", "e", " ", "h", "i", "n", "t", "s", " ", "f", "o", "r", " ", "b", "e", "t", "t", "e", "r", " ", "c", "o", "d", "e", " ", "c", "l", "a", "r", "i", "t", "y">>
      [] text = "Consider adding error handling for robustness" ->
            <<"C", "o", "n", "s", "i", "d", "e", "r", " ", "a", "d", "d", "i", "n", "g", " ", "e", "r", "r", "o", "r", " ", "h", "a", "n", "d", "l", "i", "n", "g", " ", "f", "o", "r", " ", "r", "o", "b", "u", "s", "t", "n", "e", "s", "s">>
      [] text = "Consider refactoring to reduce complexity" ->
            <<"C", "o", "n", "s", "i", "d", "e", "r", " ", "r", "e", "f", "a", "c", "t", "o", "r", "i", "n", "g", " ", "t", "o", " ", "r", "e", "d", "u", "c", "e", " ", "c", "o", "m", "p", "l", "e", "x", "i", "t", "y">>
      [] text = "Some lines exceed 100 characters - consider breaking them up" ->
            <<"S", "o", "m", "e", " ", "l", "i", "n", "e", "s", " ", "e", "x", "c", "e", "e", "d", " ", "1", "0", "0", " ", "c", "h", "a", "r", "a", "c", "t", "e", "r", "s", " ", "-", " ", "c", "o", "n", "s", "i", "d", "e", "r", " ", "b", "r", "e", "a", "k", "i", "n", "g", " ", "t", "h", "e", "m", " ", "u", "p">>
      [] text = "Consider using named constants instead of magic numbers" ->
            <<"C", "o", "n", "s", "i", "d", "e", "r", " ", "u", "s", "i", "n", "g", " ", "n", "a", "m", "e", "d", " ", "c", "o", "n", "s", "t", "a", "n", "t", "s", " ", "i", "n", "s", "t", "e", "a", "d", " ", "o", "f", " ", "m", "a", "g", "i", "c", " ", "n", "u", "m", "b", "e", "r", "s">>

\* "recursion" in s.lower() or "performance" in s.lower()
MentionsRecursionOrPerformance(text) ==
    \/ Contains(Lower(Characters(text)), <<"r", "e", "c", "u", "r", "s", "i", "o", "n">>)
    \/ Contains(Lower(Characters(text)), <<"p", "e", "r", "f", "o", "r", "m", "a", "n", "c", "e">>)

\* the text defines a function and calls it inside the text again
CallsItself(code) ==
    \E i \in Occurrences(code, <<"d", "e", "f", " ">>) :
        LET name == SubSeq(code, i + 4, WordRunEnd(code, i + 4) - 1)
        IN name # <<>> /\ Cardinality(Occurrences(code, name \o <<"(">>)) >= 2

\* C15: for recursive code (a function that calls itself, with no error-handling
\* keyword), POST /analyze with default flags returns at least one suggestion
\* whose text mentions recursion or performance.
C15_RecursionSuggested ==
    (/\ Served("/analyze")
     /\ Value(areq).env # None
     /\ Sent.check_syntax /\ Sent.check_complexity
     /\ Sent.suggest_improvements /\ ~Sent.format_code
     /\ CallsItself(Sent.code)
     /\ ~\E kw \in error_keywords : Contains(Sent.code, kw)) =>
        /\ Value(aresponse).status_code = 200
        /\ \E k \in 1..Len(Value(Value(aresponse).json).suggestions) :
              MentionsRecursionOrPerformance(Value(Value(aresponse).json).suggestions[k])

----------------------------------------------------------------------------
(* Properties of the generation responses                                   *)

\* a 200 response: Json[i] answers the request of tasks[i]
Answered == pc = "responded" /\ Status = 200

Completed == {i \in 1..Len(Json) : Json[i].status = "completed"}

\* C16: a generation response with status completed has tests non-null exactly
\* when include_tests is set, documentation non-null exactly when include_docs is
\* set, and always has metrics non-null.
C16_CompletedShape ==
    Answered =>
        \A i \in Completed :
            /\ (Json[i].tests # None) <=> tasks[i].request.include_tests
            /\ (Json[i].documentation # None) <=> tasks[i].request.include_docs
            /\ Json[i].metrics # None

\* POST /generate with tests but without documentation, completed
C16_Witness ==
    /\ Answered
    /\ endpoint = "generate"
    /\ Completed = {1}
    /\ tasks[1].request.include_tests /\ ~tasks[1].request.include_docs
    /\ Json[1].tests # None /\ Json[1].documentation = None
    /\ Json[1].metrics # None

\* C17: the metrics of a completed generation response equal what
\* CodeAnalyzerService._calculate_metrics returns for the same code and language:
\* lines_of_code, cyclomatic_complexity, readability_score, time and memory label.
C17_MetricsOfEstimator ==
    Answered =>
        \A i \in Completed :
            LET generated == Value(Json[i].metrics)
                estimated == calculate_metrics(Value(Json[i].code), Json[i].language)
            IN /\ generated.lines_of_code = estimated.lines_of_code
               /\ generated.cyclomatic_complexity = estimated.cyclomatic_complexity
               /\ generated.readability_score * estimated.readability_score.den
                    = 10 * estimated.readability_score.num
               /\ generated.estimated_execution_time = estimated.estimated_execution_time
               /\ generated.memory_complexity = estimated.memory_complexity

\* C18: POST /generate/batch with more requests than max_concurrent_generations is
\* rejected as a bad request (400) before any generation task is created, so a
\* batch never has more than max_concurrent_generations tasks in flight.
C18_BatchCap ==
    /\ endpoint = "batch" => Len(tasks) <= max_concurrent_generations
    /\ (Responded("batch") /\ Len(body) > max_concurrent_generations) =>
            /\ Status = 400
            /\ tasks = <<>>

\* the LLM calls a request with these flags makes when none fails
ExpectedCalls(request) ==
    <<"code">> \o When(request.include_tests, "tests") \o When(request.include_docs, "docs")

\* the calls of every coroutine so far are an initial part of the expected ones;
\* the tests and documentation calls carry the code extracted from the first
\* call; a coroutine whose call failed ends as a failure
CallsInOrder ==
    \A i \in 1..Len(tasks) :
        LET t == tasks[i]
            expected == ExpectedCalls(t.request)
        IN /\ Len(t.calls) <= Len(expected)
           /\ \A k \in 1..Len(t.calls) : t.calls[k].kind = expected[k]
           /\ \A k \in 2..Len(t.calls) : t.code # None /\ t.calls[k].code = t.code
           /\ (t.exc # None /\ pc = "responded") =>
                IF endpoint = "generate" THEN Status = 500
                ELSE Status = 200 /\ Json[i].status = "failed"

\* a coroutine whose call failed makes no further call
NoCallAfterFailure ==
    \A i \in 1..Len(tasks) :
        (tasks[i].exc # None /\ Len(tasks') = Len(tasks)) =>
            tasks'[i].calls = tasks[i].calls

\* C19: for one generation request the LLM calls happen strictly in the order
\* code, tests (only if include_tests), documentation (only if include_docs),
\* each at most once and never retried; the tests and documentation calls receive
\* the code extracted from the first call; if a call fails no later call is made
\* and the request ends as a failure.
C19_CallSequence == []CallsInOrder /\ [][NoCallAfterFailure]_vars

\* the tests call of a request with tests and documentation failed: two calls
\* were made, the documentation call never, and the answer is a failure
C19_Witness ==
    /\ Responded("generate")
    /\ Len(tasks) = 1
    /\ tasks[1].request.include_tests /\ tasks[1].request.include_docs
    /\ Len(tasks[1].calls) = 2
    /\ tasks[1].calls[2].kind = "tests"
    /\ tasks[1].calls[2].code = tasks[1].code
    /\ tasks[1].exc # None
    /\ Status = 500

----------------------------------------------------------------------------
(* Unit calls of the code extraction of CodeGeneratorService                *)

MaxSegments == 3

\* pieces of an LLM answer: prose, a block tagged py, an untagged block on lines
\* of its own, an untagged block on one line, a tagged block closed on its last
\* line, a line break, a block whose first line is not a tag; every block is
\* followed by a line break
Segments ==
    {<<" ", "a", "\n">>,
     <<"^", "^", "^", "p", "y", "\n", "B", "\n", "^", "^", "^", "\n">>,
     <<"^", "^", "^", "\n", "A", "\n", "^", "^", "^", "\n">>,
     <<"^", "^", "^", "C", "^", "^", "^", "\n">>,
     <<"^", "^", "^", "j", "s", "\n", "D", "^", "^", "^", "\n">>,
     <<"\n">>,
     <<"^", "^", "^", " ", "E", "\n", "F", "\n", "^", "^", "^", "\n">>}

Responses == {Concat(ss) : ss \in SeqsUpTo(Segments, MaxSegments)}

\* _extract_code_from_response(response)
CallExtract ==
    /\ call = None
    /\ \E resp \in Responses :
        /\ call' = Some([fn |-> "_extract_code_from_response", arg |-> resp])
        /\ ret' = Some(extract_code_from_response(resp))
    /\ UNCHANGED <<genVars, anaVars, langVars>>

NextExtract == CallExtract

SpecExtract == InitMetrics /\ [][NextExtract]_vars

\* the fences that open a block: the 1st, 3rd, ... fence that has a fence after it
Openers(s) ==
    LET fences == Occurrences(s, Fence)
    IN {f \in fences : /\ Cardinality({g \in fences : g <= f}) % 2 = 1
                       /\ \E g \in fences : g > f}

Closer(s, f) == SetMin({g \in Occurrences(s, Fence) : g > f})

\* the block opened at f carries a language tag: word characters right after the
\* fence, then a line break, before the closing fence
Tagged(s, f) ==
    LET q == WordRunEnd(s, f + 3)
    IN q > f + 3 /\ q < Closer(s, f) /\ s[q] = "\n"

\* the content of the block opened at f, trimmed
BlockContent(s, f) ==
    IF Tagged(s, f)
    THEN Strip(SubSeq(s, WordRunEnd(s, f + 3) + 1, Closer(s, f) - 1))
    ELSE Strip(SubSeq(s, f + 3, Closer(s, f) - 1))

\* C20: code extraction returns the content of the first fenced block that
\* carries a language tag; only when no tagged block exists, the first fenced
\* block without a tag; only when there is no fenced block, the whole response
\* trimmed.  When an untagged block precedes a tagged one, the tagged block's
\* content is returned.
C20_TaggedBlockFirst ==
    Called("_extract_code_from_response") =>
        LET tagged == {f \in Openers(Arg) : Tagged(Arg, f)}
        IN Value(ret) = IF tagged # {} THEN BlockContent(Arg, SetMin(tagged))
                        ELSE IF Openers(Arg) # {}
                        THEN BlockContent(Arg, SetMin(Openers(Arg)))
                        ELSE Strip(Arg)

----------------------------------------------------------------------------
(* Unit calls of the Suggestion Generator                                   *)

MaxNumbers == 7

\* n numeric literals that cycle through d distinct one-digit values
NumberList(n, d) ==
    LET digit == <<"1", "2", "3", "4", "5", "6", "7", "8", "9">>
    IN  Concat([k \in 1..n |-> <<digit[((k - 1) % Min(d, 9)) + 1], " ">>])

\* what precedes the literals: nothing, a function head, one with a return
\* annotation, one after a docstring quote, a try block, an identifier that ends
\* in a digit, a number glued to an underscore
SuggestionHeads ==
    {<<>>, <<"d", "e", "f", " ", "f", "(">>, <<"d", "e", "f", " ", "f", "(", ")", " ", "-", ">", " ">>, <<"\"", "\"", "\"", "d", "e", "f", " ", "f", "(">>, <<"t", "r", "y", ":", " ">>, <<"a", "1", " ">>, <<"2", "_", " ">>}

SuggestionTails == {<<>>, <<"\n">> \o X(101)}

SuggestionCodes ==
    {head \o NumberList(n, d) \o tail :
        head \in SuggestionHeads, tail \in SuggestionTails,
        n \in 0..MaxNumbers, d \in 1..MaxNumbers}

\* a CodeMetrics whose cyclomatic complexity is c
MetricsOf(c) ==
    [lines_of_code |-> 1, cyclomatic_complexity |-> c,
     readability_score |-> [num |-> 90, den |-> 1],
     estimated_execution_time |-> "O(1)", memory_complexity |-> "O(1)"]

SuggestionMetrics == {None, Some(MetricsOf(10)), Some(MetricsOf(11))}

\* _generate_suggestions(code, language, metrics)
CallSuggestions ==
    /\ call = None
    /\ \E code \in SuggestionCodes, language \in AnaLanguages,
          metrics \in SuggestionMetrics :
        /\ call' = Some([fn |-> "_generate_suggestions",
                         arg |-> [code |-> code, language |-> language,
                                  metrics |-> metrics]])
        /\ ret' = Some(generate_suggestions(code, language, metrics))
    /\ UNCHANGED <<genVars, anaVars, langVars>>

NextSuggestions == CallSuggestions

SpecSuggestions == InitMetrics /\ [][NextSuggestions]_vars

Suggested(text) == \E k \in 1..Len(Value(ret)) : Value(ret)[k] = text

NamedConstants == "Consider using named constants instead of magic numbers"

\* the numeric literals of the code: digit runs with a word boundary on both sides
Literals(code) == {SubSeq(code, a, WordRunEnd(code, a) - 1) : a \in NumberMatches(code)}

\* C21: the named-constants suggestion is produced exactly when the code contains
\* more than 5 distinct numeric literals; repeating one literal many times does
\* not produce it.
C21_DistinctLiterals ==
    Called("_generate_suggestions") =>
        (Suggested(NamedConstants) <=> Cardinality(Literals(Arg.code)) > 5)

\* C21 (amended): the named-constants suggestion is produced exactly when the
\* code contains more than 5 numeric literals, each occurrence counted, repeated
\* values included.
C21_LiteralOccurrences ==
    Called("_generate_suggestions") =>
        (Suggested(NamedConstants) <=> Cardinality(NumberMatches(Arg.code)) > 5)

\* six occurrences of one and the same literal produce the suggestion
C21_Witness ==
    /\ Called("_generate_suggestions")
    /\ Cardinality(NumberMatches(Arg.code)) = 6
    /\ Cardinality(Literals(Arg.code)) = 1
    /\ Suggested(NamedConstants)

\* the six suggestion texts in the order of their checks
SuggestionOrder ==
    <<"Add docstrings to functions for better documentation",
      "Consider adding type hints for better code clarity",
      "Consider adding error handling for robustness",
      "Consider refactoring to reduce complexity",
      "Some lines exceed 100 characters - consider breaking them up",
      "Consider using named constants instead of magic numbers">>

Position(text) == CHOOSE k \in 1..Len(SuggestionOrder) : SuggestionOrder[k] = text

\* the condition of the k-th check on its own, whatever the other checks say
OwnCheck(k, code, language, metrics) ==
    CASE k = 1 -> /\ language = "python"
                  /\ Contains(code, <<"d", "e", "f", " ">>)
                  /\ ~Contains(code, <<"\"", "\"", "\"">>)
      [] k = 2 -> /\ language = "python"
                  /\ Contains(code, <<"d", "e", "f", " ">>)
                  /\ ~Contains(code, <<"-", ">">>)
      [] k = 3 -> \A kw \in error_keywords : ~Contains(code, kw)
      [] k = 4 -> metrics # None /\ Value(metrics).cyclomatic_complexity > 10
      [] k = 5 -> \E line \in {Split(code, "\n")[i] : i \in 1..Len(Split(code, "\n"))} :
                     Len(line) > 100
      [] k = 6 -> Cardinality(NumberMatches(code)) > 5

\* C22: the suggestion list is a subsequence of the fixed check order (docstrings,
\* type hints, error handling, refactor complexity, long lines, named constants):
\* every suggestion occurs at most once, in that order, and is present exactly
\* when its own check holds, whatever the other checks say.
C22_SuggestionOrder ==
    Called("_generate_suggestions") =>
        LET s == Value(ret)
        IN /\ \A i \in 1..Len(s) : \E k \in 1..Len(SuggestionOrder) : s[i] = SuggestionOrder[k]
           /\ \A i, j \in 1..Len(s) : i < j => Position(s[i]) < Position(s[j])
           /\ \A k \in 1..Len(SuggestionOrder) :
                 Suggested(SuggestionOrder[k])
                     <=> OwnCheck(k, Arg.code, Arg.language, Arg.metrics)

\* a call whose six checks all hold returns the six suggestions
C22_Witness ==
    /\ Called("_generate_suggestions")
    /\ \A k \in 1..Len(SuggestionOrder) : OwnCheck(k, Arg.code, Arg.language, Arg.metrics)
    /\ Len(Value(ret)) = 6

----------------------------------------------------------------------------
(* Properties of the Analysis Orchestrator                                  *)

Refactor == "Consider refactoring to reduce complexity"

SuggestedInResult(text) ==
    \E k \in 1..Len(Value(aresult).suggestions) : Value(aresult).suggestions[k] = text

\* C30: the refactoring suggestion is produced only when check_complexity is set
\* and the computed cyclomatic complexity exceeds 10; with check_complexity unset
\* the suggestion step receives no metrics and never produces the suggestion.
C30_RefactorNeedsMetrics ==
    (Served("/analyze") /\ aresult # None) =>
        /\ SuggestedInResult(Refactor) =>
              /\ Sent.check_complexity
              /\ calculate_cyclomatic_complexity(Sent.code, Sent.language) > 10
        /\ ~Sent.check_complexity =>
              /\ Value(aresult).metrics = None
              /\ ~SuggestedInResult(Refactor)

\* complex code analysed with check_complexity set gets the suggestion
C30_Witness ==
    /\ Served("/analyze") /\ aresult # None
    /\ Sent.check_complexity /\ Sent.suggest_improvements
    /\ Value(Value(aresult).metrics).cyclomatic_complexity = 11
    /\ SuggestedInResult(Refactor)

\* complex code analysed with check_complexity unset does not
C30_UnsetWitness ==
    /\ Served("/analyze") /\ aresult # None
    /\ ~Sent.check_complexity /\ Sent.suggest_improvements
    /\ calculate_cyclomatic_complexity(Sent.code, Sent.language) = 11
    /\ ~SuggestedInResult(Refactor)

\* the request the handler hands to analyze_code
Effective ==
    CASE Value(areq).route = "/analyze" -> Sent
      [] Value(areq).route = "/analyze/format" -> format_request(Sent)
      [] Value(areq).route = "/analyze/validate" -> validate_request(Sent)

\* the sub-steps of analyze_code among the steps run, without the formatter's
\* library calls
SubSteps ==
    SelectSeq(steps, LAMBDA x : x \in {"syntax", "metrics", "suggestions", "format"})

Planned(request) ==
    When(request.check_syntax, "syntax")
    \o When(request.check_complexity, "metrics")
    \o When(request.suggest_improvements, "suggestions")
    \o When(request.format_code, "format")

Entered == areq # None /\ Value(areq).env # None

\* C23: analyze_code runs its sub-steps in the fixed order syntax, metrics,
\* suggestions, format, each only when its flag is set; an unset step leaves its
\* output at the initial value (issues and suggestions empty; metrics,
\* ast_structure and formatted_code null); an exception in a step propagates and
\* no partial result is returned.
C23_StepOrder ==
    Entered =>
        IF aresult # None
        THEN /\ SubSteps = Planned(Effective)
             /\ ~Effective.check_syntax =>
                   Value(aresult).issues = <<>> /\ Value(aresult).ast_structure = None
             /\ ~Effective.check_complexity => Value(aresult).metrics = None
             /\ ~Effective.suggest_improvements => Value(aresult).suggestions = <<>>
             /\ ~Effective.format_code => Value(aresult).formatted_code = None
        ELSE /\ SubSteps # <<>>
             /\ Len(SubSteps) <= Len(Planned(Effective))
             /\ SubSteps = SubSeq(Planned(Effective), 1, Len(SubSteps))
             /\ Value(Value(areq).env).compiled.raised
             /\ Value(aresponse).status_code \in {400, 500}
             /\ Value(aresponse).json = None

\* all four steps ran, in order
C23_Witness ==
    /\ Entered /\ aresult # None
    /\ SubSteps = <<"syntax", "metrics", "suggestions", "format">>
    /\ Value(aresult).metrics # None
    /\ Value(aresult).formatted_code # None

\* the syntax step raised: later steps did not run and there is no result
C23_RaisedWitness ==
    /\ Entered /\ aresult = None
    /\ Effective.check_complexity /\ Effective.format_code
    /\ SubSteps = <<"syntax">>
    /\ Value(aresponse).status_code = 400

\* only the format step was asked for
C23_UnsetWitness ==
    /\ Served("/analyze") /\ Entered /\ aresult # None
    /\ SubSteps = <<"format">>
    /\ Value(aresult).issues = <<>> /\ Value(aresult).suggestions = <<>>
    /\ Value(aresult).metrics = None /\ Value(aresult).ast_structure = None

\* C28: when check_syntax is false, analyze_code reports valid = false with empty
\* issues and a null ast_structure, and POST /analyze answers with
\* syntax_valid = false and empty syntax_errors.
C28_UncheckedIsInvalid ==
    (Entered /\ ~Effective.check_syntax) =>
        /\ aresult # None
        /\ Value(aresult).valid = FALSE
        /\ Value(aresult).issues = <<>>
        /\ Value(aresult).ast_structure = None
        /\ Served("/analyze") =>
              /\ Value(aresponse).status_code = 200
              /\ Value(Value(aresponse).json).syntax_valid = FALSE
              /\ Value(Value(aresponse).json).syntax_errors = <<>>

\* code that compiles, analysed without the syntax check, is reported invalid
C28_Witness ==
    /\ Served("/analyze") /\ Entered
    /\ ~Sent.check_syntax /\ Sent.check_complexity
    /\ Sent.code = <<"x", " ", "=", " ", "1">>
    /\ ~Value(Value(areq).env).compiled.raised
    /\ Value(aresponse).status_code = 200
    /\ Value(Value(aresponse).json).syntax_valid = FALSE
    /\ Value(Value(aresponse).json).syntax_errors = <<>>

----------------------------------------------------------------------------
(* Properties of the Syntax Checker                                         *)

\* the nodes of a tree, depth first, a node before its children, children left
\* to right
RECURSIVE PreOrder(_)
PreOrder(node) ==
    <<node>> \o Concat([k \in 1..Len(node.children) |-> PreOrder(node.children[k])])

Flagged(tree) ==
    SelectSeq(PreOrder(tree), LAMBDA n : n.type = "ERROR" \/ n.is_missing)

SyntaxChecked == Entered /\ Effective.check_syntax

\* C24: in parser-backed mode with the language's parser loaded, valid is false
\* exactly when the tree has at least one ERROR or missing node, and issues holds
\* exactly one record per such node, in depth-first pre-order, left to right, with
\* line = start row + 1 and column = start column.
C24_IssuePerErrorNode ==
    (/\ SyntaxChecked
     /\ TREE_SITTER_AVAILABLE
     /\ Sent.language \in parsers
     /\ ~Value(Value(areq).env).parsed.raised) =>
        LET flagged == Flagged(Value(Value(Value(areq).env).parsed.value))
        IN /\ aresult # None
           /\ Value(aresult).valid = (flagged = <<>>)
           /\ Len(Value(aresult).issues) = Len(flagged)
           /\ \A k \in 1..Len(flagged) :
                 /\ Value(aresult).issues[k].line = Some(flagged[k].start_point[1] + 1)
                 /\ Value(aresult).issues[k].column = Some(flagged[k].start_point[2])

\* a tree with an ERROR node, a missing node below it and a missing node after it
C24_Witness ==
    /\ SyntaxChecked /\ TREE_SITTER_AVAILABLE /\ Sent.language \in parsers
    /\ Value(Value(areq).env).parsed = Return(BrokenTree)
    /\ aresult # None
    /\ Value(aresult).valid = FALSE
    /\ Len(Value(aresult).issues) = 3
    /\ Value(aresult).issues[2].column = Some(9)

Fallback == SyntaxChecked /\ ~TREE_SITTER_AVAILABLE

Compiled == Value(Value(areq).env).compiled

\* the fallback result for python code on which compile() had the outcome c
FallbackPython(c) ==
    /\ aresult # None
    /\ Value(aresult).valid = ~c.raised
    /\ Value(aresult).ast_structure = None
    /\ IF c.raised
       THEN /\ Len(Value(aresult).issues) = 1
            /\ Value(aresult).issues[1].message = <<"Syntax error: ">> \o Str(Value(c.exc))
       ELSE Value(aresult).issues = <<>>

\* C25: in fallback mode every language other than python is reported valid with
\* no issues; for python valid is false exactly when the compile check fails, and
\* then issues holds exactly one entry carrying the error message; ast is null in
\* every fallback result.
C25_FallbackSyntax ==
    Fallback =>
        IF Sent.language = "python"
        THEN FallbackPython(Compiled)
        ELSE /\ aresult # None
             /\ Value(aresult).valid = TRUE
             /\ Value(aresult).issues = <<>>
             /\ Value(aresult).ast_structure = None

\* the same, for the outcomes of compile() that _check_syntax handles: success
\* and SyntaxError
C25_FallbackSyntaxError ==
    (/\ Fallback
     /\ Sent.language = "python"
     /\ (Compiled.raised => Value(Compiled.exc).type = "SyntaxError")) =>
        FallbackPython(Compiled)

\* compile() fails with something other than SyntaxError: no result at all
C25_Unhandled ==
    /\ Served("/analyze/validate") /\ Fallback
    /\ Sent.language = "python"
    /\ Compiled.raised /\ Value(Compiled.exc).type = "MemoryError"
    /\ aresult = None
    /\ Value(aresponse).status_code = 500

----------------------------------------------------------------------------
(* Properties of the time-complexity label                                  *)

\* occurrences of the loop keywords in the code, whatever their case
LoopOccurrences(code) == Count(Lower(code), FOR) + Count(Lower(code), WHILE)

\* indentation of the lines that bear a loop keyword, whatever its case, in line
\* order
LoopBearing(code) ==
    LET lines == Split(code, "\n")
        bearing == SelectSeq([i \in 1..Len(lines) |-> lines[i]],
                             LAMBDA l : Contains(Lower(l), FOR) \/ Contains(Lower(l), WHILE))
    IN [k \in 1..Len(bearing) |-> Len(bearing[k]) - Len(LStrip(bearing[k]))]

RecursionMarker(code) ==
    Contains(Lower(code), RECURSI) \/ Contains(Lower(code), RETURN_SELF)

TimeLabel(code) ==
    LET n == LoopOccurrences(code)
        indents == LoopBearing(code)
    IN CASE n >= 3 -> "O(n^3) or higher"
         [] n = 2 -> IF Len(indents) >= 2 /\ indents[2] > indents[1]
                     THEN "O(n^2)" ELSE "O(n)"
         [] n = 1 -> "O(n)"
         [] n = 0 -> IF RecursionMarker(code)
                     THEN "O(log n) to O(n) - recursive" ELSE "O(1)"

\* C26: the time-complexity label is a total function of the number of
\* occurrences of the loop keywords for and while: three or more give
\* "O(n^3) or higher"; exactly two give "O(n^2)" if the second of the first two
\* loop-bearing lines is more indented than the first and "O(n)" otherwise, both
\* occurrences on one line included; exactly one gives "O(n)"; none gives
\* "O(log n) to O(n) - recursive" with a recursion marker and "O(1)" without.
C26_TimeLabel ==
    Called("_estimate_time_complexity") => Value(ret) = TimeLabel(Arg)

\* the same for code whose loop keywords are all in lower case
C26_LowerCaseTimeLabel ==
    (Called("_estimate_time_complexity") /\ ~Contains(Arg, <<"F", "O", "R">>)) =>
        Value(ret) = TimeLabel(Arg)

\* two nested loops written in upper case are labelled "O(n)"
C26_UpperCaseNested ==
    /\ Called("_estimate_time_complexity")
    /\ Arg = Join(<<<<"F", "O", "R", " ", "a">>, <<" ", " ", "F", "O", "R", " ", "a">>>>)
    /\ Value(ret) = "O(n)"

\* two nested loops written in lower case are labelled "O(n^2)"
C26_LowerCaseNested ==
    /\ Called("_estimate_time_complexity")
    /\ Arg = Join(<<<<"f", "o", "r", " ", "a">>, <<" ", " ", "w", "h", "i", "l", "e", " ", "a">>>>)
    /\ Value(ret) = "O(n^2)"

----------------------------------------------------------------------------
(* Unit calls of the documentation step                                     *)

MaxDocSegments == 3

\* pieces of an LLM answer: prose, braces, a member, an object whose
\* usage_examples is a string, an object whose inline_comments is null
DocSegments ==
    {<<"d", "o", "c", " ">>,
     <<"{">>,
     <<"}">>,
     <<"\"", "r", "e", "a", "d", "m", "e", "\"", ":", " ", "\"", "r", "\"">>,
     <<"{", "\"", "i", "n", "l", "i", "n", "e", "_", "c", "o", "m", "m", "e", "n", "t", "s", "\"", ":", " ", "\"", "c", "\"", ",", " ", "\"", "u", "s", "a", "g", "e", "_", "e", "x", "a", "m", "p", "l", "e", "s", "\"", ":", " ", "\"", "u", "\"", "}">>,
     <<"{", "\"", "i", "n", "l", "i", "n", "e", "_", "c", "o", "m", "m", "e", "n", "t", "s", "\"", ":", " ", "n", "u", "l", "l", "}">>}

DocResponses == {Concat(ss) : ss \in SeqsUpTo(DocSegments, MaxDocSegments)}

\* generate_documentation(code, request), from the LLM's answer on
CallDocumentation ==
    /\ call = None
    /\ \E text \in DocResponses :
        LET code == <<"x", " ", "=", " ", "1">>
        IN /\ call' = Some([fn |-> "generate_documentation",
                            arg |-> [text |-> text, code |-> code]])
           /\ ret' = Some(generate_documentation(text, code))
    /\ UNCHANGED <<genVars, anaVars, langVars>>

NextDocumentation == CallDocumentation

SpecDocumentation == InitMetrics /\ [][NextDocumentation]_vars

\* no JSON object comes out of the text: it has no brace span, or json.loads
\* refuses the span
NoJsonObject(text) ==
    \/ JsonSpan(text) = <<>>
    \/ json_loads(matched(text)).raised

\* C27: when no JSON object can be parsed out of the documentation response, the
\* Documentation has inline_comments equal to the entire response text, readme
\* and api_docs null and usage_examples empty, and the documentation step does
\* not fail.
C27_DocumentationFallback ==
    (Called("generate_documentation") /\ NoJsonObject(Arg.text)) =>
        Value(ret) = Return([inline_comments |-> Arg.text, readme |-> None,
                             api_docs |-> None, usage_examples |-> <<>>])

\* an answer with a brace span that is not JSON
C27_Witness ==
    /\ Called("generate_documentation")
    /\ JsonSpan(Arg.text) # <<>>
    /\ NoJsonObject(Arg.text)
    /\ ~Value(ret).raised
    /\ Value(Value(ret).value).inline_comments = Arg.text

\* an answer whose JSON object is parsed
C27_Parsed ==
    /\ Called("generate_documentation")
    /\ ~Value(ret).raised
    /\ Value(Value(ret).value).readme = Some(<<"r">>)
    /\ Value(Value(ret).value).inline_comments = Arg.code

----------------------------------------------------------------------------
(* Shape of a generation response                                           *)

\* C29: every GenerationResponse of /generate and /generate/batch has status
\* completed or failed; a completed one has code and metrics non-null and error
\* null; a failed one has error non-null and code, tests, documentation and
\* metrics all null, even when the failing step came after the code was
\* generated.
C29_ResponseShape ==
    Answered =>
        \A i \in 1..Len(Json) :
            /\ Json[i].status \in {"completed", "failed"}
            /\ Json[i].status = "completed" =>
                  /\ Json[i].code # None
                  /\ Json[i].metrics # None
                  /\ Json[i].error = None
            /\ Json[i].status = "failed" =>
                  /\ Json[i].error # None
                  /\ Json[i].code = None
                  /\ Json[i].tests = None
                  /\ Json[i].documentation = None
                  /\ Json[i].metrics = None

\* a batch slot that failed in the documentation call, after its code and tests
\* were generated, next to a completed slot
C29_Witness ==
    /\ Answered /\ endpoint = "batch" /\ Len(Json) = 2
    /\ Json[1].status = "failed"
    /\ tasks[1].code # None /\ tasks[1].tests # None
    /\ Json[1].code = None /\ Json[1].tests = None /\ Json[1].error # None
    /\ Json[2].status = "completed"

====
